---- MODULE Spec2Model ----
(***************************************************************************)
(* King-of-the-hill worker (dexbot/strategies/king_of_the_hill.py).        *)
(*                                                                         *)
(* Prices and amounts are exact rationals [n, d] in lowest terms.  The     *)
(* source mixes binary floats (order-book prices, configured amounts and   *)
(* bounds) with 28-digit Decimals; the model keeps the decimal quantize    *)
(* steps (round-half-even at the asset precision) and treats every other   *)
(* arithmetic step as exact.                                               *)
(***************************************************************************)
EXTENDS Integers, Sequences, FiniteSets, TLC

(* ----------------------------- bounds ---------------------------------- *)
MaxPrecision == 1     \* asset precisions range over 0..MaxPrecision
MaxTime      == 1     \* the clock runs from StartTime to StartTime + MaxTime
MaxCounter   == 5     \* ticks are delivered while counter < MaxCounter

(* ----------------------------- rationals ------------------------------- *)
RECURSIVE GCD(_, _)
GCD(a, b) == IF b = 0 THEN a ELSE GCD(b, a % b)

Abs(x) == IF x < 0 THEN -x ELSE x

\* n/d in lowest terms with a positive denominator (d # 0)
R(n, d) ==
    LET s == IF d < 0 THEN -1 ELSE 1
        g == GCD(Abs(n), Abs(d))
    IN  [n |-> (s * n) \div g, d |-> (s * d) \div g]

Zero == [n |-> 0, d |-> 1]

\* no price: Python None where a price is expected
NoPrice == [n |-> 0, d |-> 0]

RLt(a, b) == a.n * b.d < b.n * a.d
RLe(a, b) == a.n * b.d <= b.n * a.d
RGt(a, b) == RLt(b, a)
RGe(a, b) == RLe(b, a)
RIsZero(a) == a.n = 0

RMul(a, b) == R(a.n * b.n, a.d * b.d)
RDiv(a, b) == R(a.n * b.d, a.d * b.n)          \* b # 0
RSub(a, b) == R(a.n * b.d - b.n * a.d, a.d * b.d)
RAdd(a, b) == R(a.n * b.d + b.n * a.d, a.d * b.d)
RAbs(a)    == [n |-> Abs(a.n), d |-> a.d]
RInv(a)    == R(a.d, a.n)                      \* a # 0
RMin(a, b) == IF RLe(a, b) THEN a ELSE b
RMax(a, b) == IF RGe(a, b) THEN a ELSE b

RECURSIVE Pow10(_)
Pow10(p) == IF p = 0 THEN 1 ELSE 10 * Pow10(p - 1)

\* Decimal(10) ** -p
Unit(p) == R(1, Pow10(p))

\* Decimal.quantize(Decimal(0).scaleb(-p)) under the default context:
\* round-half-even to a multiple of 10^-p (values here are never negative)
Quantize(a, p) ==
    LET num == a.n * Pow10(p)
        q   == num \div a.d
        r   == num % a.d
        up  == \/ 2 * r > a.d
               \/ 2 * r = a.d /\ q % 2 = 1
    IN  R(IF up THEN q + 1 ELSE q, Pow10(p))

(* ----------------------------- inputs ---------------------------------- *)
Handlers == {"market", "tick"}
Sides == {"buy", "sell"}
None  == 0                       \* Python None / a key missing from a dict

Precisions == 0 .. MaxPrecision

\* configured order sizes (buy_order_amount in BASE, sell_order_amount in QUOTE)
AmountChoices == {R(4, 100), R(1, 1), R(5, 2)}
\* configured size thresholds; 0 means "use the own order amount"
ThresholdChoices == {Zero, R(2, 1)}
UpperBoundChoices == {Zero, R(2, 1), R(10, 1)}
LowerBoundChoices == {Zero, R(1, 1), R(2, 1)}
LifetimeChoices == {1, 2}

\* Orders other accounts may have on the book.  Every price is in BASE per
\* QUOTE (sell orders as filter_sell_orders(invert=True) returns them);
\* amount is the amount get_top_prices compares with the size threshold.
ForeignOrders ==
    { [id |-> 1, side |-> "buy",  price |-> R(3, 1), amount |-> R(3, 2)],
      [id |-> 2, side |-> "buy",  price |-> R(2, 1), amount |-> R(5, 1)],
      [id |-> 3, side |-> "sell", price |-> R(1, 2), amount |-> R(3, 2)],
      [id |-> 4, side |-> "sell", price |-> R(2, 1), amount |-> R(5, 1)] }
ForeignIds == {o.id : o \in ForeignOrders}
OwnIdBase == 10                  \* own order ids are OwnIdBase + 1, + 2, ...

StartTime == 1000                \* seconds from 2000-01-01 to construction

(* ----------------------------- state ----------------------------------- *)
VARIABLES
    worker,               \* self.worker: the worker's configuration
    market,               \* self.market: precision of the base and quote asset
    counter,              \* self.counter
    orders,               \* self.orders: side -> own order id (None: no key)
    top_buy_price, top_sell_price,
    buy_order_to_beat, sell_order_to_beat,
    beaten_buy_order, beaten_sell_order,
    last_check,
    disabled,
    now,                  \* datetime.now(), seconds since 2000-01-01
    book,                 \* ids of the foreign orders open on the exchange
    own,                  \* the account's own open orders on the exchange
    snapshot,             \* the order book the step just taken fetched
    calls,                \* what the step just taken did, in order
    prior,                \* what is remembered of the latest evaluation
    pc,                   \* where each handler stands inside maintain_strategy
    staggered,            \* the staggered-orders worker
    storage,              \* the worker's order storage, and what was last fetched
    walls,                \* the walls worker (stakemachine)
    window,               \* the main window's list of worker widgets
    conf                  \* cli_conf: the module-level loop that tags the strategies

strategyVars == <<orders, top_buy_price, top_sell_price, buy_order_to_beat,
                  sell_order_to_beat, beaten_buy_order, beaten_sell_order,
                  last_check, disabled>>
kothVars == <<worker, market, counter, strategyVars, now, book, own, snapshot, calls>>
vars == <<kothVars, prior, pc, staggered, storage, walls, window, conf>>

(* ----------------------------- storage ---------------------------------- *)
\* the rows the model lets the table hold
MaxRows == 2

\* tests/storage/test_storage.py: the orders a test saves
OrderKeys == <<"id", "base", "quote">>
StoredOrders == [id : {"111", "222"}, base : {"10 CNY", "20 CNY"}, quote : {"1 BTS"}]
Customs == {"foo bar", "baz"}
NoCustom == "None"

\* an order is stored as text and read back from it
dumps(order) == [i \in DOMAIN OrderKeys |-> <<OrderKeys[i], order[OrderKeys[i]]>>]
loads(text) ==
    [k \in {text[i][1] : i \in DOMAIN text} |->
        text[CHOOSE i \in DOMAIN text : text[i][1] = k][2]]

Row(order, virtual, custom) ==
    [order_id |-> order.id, order |-> dumps(order), virtual |-> virtual, custom |-> custom]

\* save_order(order)
save_order(rows, order) == Append(rows, Row(order, FALSE, NoCustom))

\* save_order_extended(order, virtual, custom)
save_order_extended(rows, order, virtual, custom) == Append(rows, Row(order, virtual, custom))

\* fetch_orders() that answers with the latest row alone
fetch_orders_latest(rows) ==
    [id \in {rows[i].order_id : i \in DOMAIN rows \cap {Len(rows)}} |-> loads(rows[Len(rows)].order)]

\* fetch_orders(): {order id: order}
fetch_orders(rows) ==
    [id \in {rows[i].order_id : i \in DOMAIN rows} |->
        loads(rows[CHOOSE i \in DOMAIN rows : rows[i].order_id = id].order)]

\* a selection that forgets only_real
selected_any_real(row, only_virtual, only_real, custom) ==
    /\ only_virtual => row.virtual
    /\ custom # NoCustom => row.custom = custom

\* the rows a call of fetch_orders_extended selects
selected(row, only_virtual, only_real, custom) ==
    /\ only_virtual => row.virtual
    /\ only_real => ~row.virtual
    /\ custom # NoCustom => row.custom = custom

entry(row) == [order |-> loads(row.order), virtual |-> row.virtual, custom |-> row.custom]

\* fetch_orders_extended(only_virtual, only_real, custom, return_ids_only)
fetch_orders_extended(rows, only_virtual, only_real, custom, return_ids_only) ==
    IF return_ids_only
    THEN [i \in DOMAIN SelectSeq(rows, LAMBDA r : selected(r, only_virtual, only_real, custom)) |->
            SelectSeq(rows, LAMBDA r : selected(r, only_virtual, only_real, custom))[i].order_id]
    ELSE [i \in DOMAIN SelectSeq(rows, LAMBDA r : selected(r, only_virtual, only_real, custom)) |->
            entry(SelectSeq(rows, LAMBDA r : selected(r, only_virtual, only_real, custom))[i])]

\* an empty table; saved is what the callers passed to the save calls
EmptyStorage == [rows |-> <<>>, saved |-> {}, fetched |-> [op |-> "none"]]

(* ------------------------------- walls ---------------------------------- *)
\* the own orders the account may have open when the worker starts, and the
\* blocks the model lets it see
MaxWallsOrders == 3
MaxWallsBlocks == 3

\* the worker's configuration: bot['target']['offsets'], ['amount'] and
\* bot['threshold'], percentages and amounts
offset_buy == R(10, 1)
offset_sell == R(10, 1)
amount_buy == R(1, 1)
amount_sell == R(1, 1)
walls_threshold == R(20, 1)
\* bot['test']['blocks']
TestBlocks == {0, 2}

\* what getprice() and balance() may answer
WallsPrices == {R(1, 1), R(11, 10), R(2, 1)}
WallsBalances == [base : {Zero, R(5, 1)}, quote : {Zero, R(5, 1)}]

\* lines 42-43
buy_price(price) == RMul(price, RSub(R(1, 1), RDiv(offset_buy, R(100, 1))))
sell_price(price) == RMul(price, RAdd(R(1, 1), RDiv(offset_sell, R(100, 1))))

\* lines 31-33 and 46: the own orders are cancelled, the price is stored
walls_cancelled(w, price) == [w EXCEPT !.orders = 0, !.placed = {}, !.feed_price = price]

\* a buy side that raises the error it builds
walls_buy_side_raising(w, price, balance) ==
    IF RLt(balance.base, RMul(buy_price(price), amount_buy))
    THEN [w EXCEPT !.insufficient_buy = TRUE, !.raised = TRUE]
    ELSE [w EXCEPT !.insufficient_buy = FALSE,
                   !.orders = @ + 1, !.placed = @ \cup {"buy"}]

\* lines 48-58
walls_buy_side(w, price, balance) ==
    IF RLt(balance.base, RMul(buy_price(price), amount_buy))
    THEN [w EXCEPT !.insufficient_buy = TRUE]
    ELSE [w EXCEPT !.insufficient_buy = FALSE,
                   !.orders = @ + 1, !.placed = @ \cup {"buy"}]

\* lines 60-70
walls_sell_side(w, price, balance) ==
    IF w.raised THEN w
    ELSE IF RLt(balance.quote, amount_sell)
    THEN [w EXCEPT !.insufficient_sell = TRUE]
    ELSE [w EXCEPT !.insufficient_sell = FALSE,
                   !.orders = @ + 1, !.placed = @ \cup {"sell"}]

\* updateorders has run from w and ended as r
walls_updated(r, branch, price, balance) ==
    [r EXCEPT !.log = Append(@, [op |-> "updateorders", branch |-> branch, price |-> price,
                                 balance |-> balance, placed |-> r.placed,
                                 insufficient_buy |-> r.insufficient_buy,
                                 insufficient_sell |-> r.insufficient_sell])]

\* lines 26-72
updateorders(w, branch, price, balance) ==
    IF w.raised THEN w
    ELSE walls_updated(walls_sell_side(walls_buy_side(walls_cancelled(w, price), price, balance),
                                       price, balance),
                       branch, price, balance)

\* line 110: fabs(1 - price / feed_price) > threshold / 100
feed_moved(price, feed_price) ==
    RGt(RAbs(RSub(R(1, 1), RDiv(price, feed_price))), RDiv(walls_threshold, R(100, 1)))

\* an order-count test that skips the look at the two flags
walls_count_branch_blind(w, price, balance) ==
    IF w.orders < 2
    THEN updateorders(w, "count", price, balance)
    ELSE w

\* lines 96-105
walls_count_branch(w, price, balance) ==
    IF w.orders < 2 /\ w.orders > 0
    THEN IF ~w.insufficient_buy /\ ~w.insufficient_sell
         THEN updateorders(w, "count", price, balance)
         ELSE w
    ELSE IF w.orders = 0
    THEN updateorders(w, "count", price, balance)
    ELSE w

\* lines 107-113, with the feed price and the price the test compares
walls_feed_branch(w, price, balance) ==
    IF w.raised THEN w
    ELSE IF w.feed_price # NoPrice /\ feed_moved(price, w.feed_price)
    THEN updateorders([w EXCEPT !.log = Append(@, [op |-> "feed_test", price |-> price,
                                                    feed_price |-> w.feed_price])],
                      "feed", price, balance)
    ELSE [w EXCEPT !.log = Append(@, [op |-> "feed_test", price |-> price,
                                      feed_price |-> w.feed_price])]

\* the worker as test() finds it
walls_entered(w) ==
    [w EXCEPT !.raised = FALSE,
              !.log = <<[op |-> "test", orders |-> w.orders, feed_price |-> w.feed_price,
                         insufficient_buy |-> w.insufficient_buy,
                         insufficient_sell |-> w.insufficient_sell]>>]

\* lines 91-113; the price may move between the two branches
walls_test(w, price, later, balance, left) ==
    walls_feed_branch(walls_count_branch(walls_entered(w), price, balance), later, left)

\* line 89, which an exception of line 88 skips
walls_counted(w) == IF w.raised THEN w ELSE [w EXCEPT !.blocks = @ + 1]

\* lines 83-89
walls_tick(w, price, later, balance, left) ==
    IF w.test_blocks # 0
    THEN walls_counted(IF w.blocks % w.test_blocks = 0
                       THEN walls_test(w, price, later, balance, left)
                       ELSE [w EXCEPT !.log = <<>>])
    ELSE [w EXCEPT !.log = <<>>]

\* the worker after __init__: the storage keeps feed_price and the two
\* flags from earlier runs, a key never written reads as None
WallsConstructed(n, feed_price, ib, is, test_blocks) ==
    [orders |-> n, feed_price |-> feed_price, insufficient_buy |-> ib, insufficient_sell |-> is,
     test_blocks |-> test_blocks, blocks |-> 0, placed |-> {}, raised |-> FALSE, log |-> <<>>]

(* ------------------------------- cli_conf ------------------------------- *)
\* the external strategies the model lets find_external_strategies() yield
MaxExternal == 3

\* a description is a sequence of words, a word a sequence of characters;
\* a name that matters as a whole stands for its characters
Descriptions ==
    {<<<<"Relative">>, <<"Orders">>>>, <<<<"relative", "1">>>>, <<<<"relative", "1", "2">>>>,
     <<<<"stagger">>>>, <<<<"Echo">>, <<"strategy">>>>}

\* str.lower()
lower_char(c) == IF c = "Relative" THEN "relative" ELSE IF c = "Echo" THEN "echo" ELSE c
lower(word) == [k \in DOMAIN word |-> lower_char(word[k])]

\* lines 28-36
Imported(external) ==
    [pc |-> "for", pending |-> external, tag |-> <<>>, i |-> 0,
     STRATEGIES |-> <<[tag |-> <<"relative">>, name |-> <<<<"Relative">>, <<"Orders">>>>],
                      [tag |-> <<"stagger">>, name |-> <<<<"Staggered">>, <<"Orders">>>>]>>,
     tags_so_far |-> {<<"stagger">>, <<"relative">>}]

\* lines 38-40: tag = desc.split()[0].lower(); i = 1
tag_started(c) ==
    [c EXCEPT !.pc = "while", !.tag = lower(Head(c.pending)[1]), !.i = 1]

\* lines 42-43: tag = tag + str(i); i += 1 (i stays below 10 here)
tag_extended(c) == [c EXCEPT !.tag = c.tag \o <<ToString(c.i)>>, !.i = c.i + 1]

\* an append that forgets tags_so_far.add(tag)
tag_accepted_unrecorded(c) ==
    [c EXCEPT !.pc = "for", !.pending = Tail(c.pending),
              !.STRATEGIES = Append(@, [tag |-> c.tag, name |-> Head(c.pending)])]

\* lines 44-45
tag_accepted(c) ==
    [c EXCEPT !.pc = "for", !.pending = Tail(c.pending),
              !.tags_so_far = @ \cup {c.tag},
              !.STRATEGIES = Append(@, [tag |-> c.tag, name |-> Head(c.pending)])]

(* ----------------------------- main window ------------------------------ *)
\* worker_list.py, MainView.__init__: self.max_workers = 10
max_workers == 10
\* the worker names of the model, and how far the calls may drive
\* num_of_workers below 0 or above max_workers
MaxNames == 11
MaxDrift == 1
WorkerNames == 1 .. MaxNames

\* lines 64-74
add_worker_widget(w, worker_name) ==
    [w EXCEPT !.worker_widgets = @ \cup {worker_name},
              !.num_of_workers = @ + 1,
              !.add_worker_button = IF w.num_of_workers + 1 >= max_workers THEN FALSE ELSE @]

\* lines 76-81
remove_worker_widget(w, worker_name) ==
    [w EXCEPT !.worker_widgets = @ \ {worker_name},
              !.num_of_workers = @ - 1,
              !.add_worker_button = IF w.num_of_workers - 1 < max_workers THEN TRUE ELSE @]

\* lines 83-85; pop(old_worker_name) raises KeyError for a name not shown
change_worker_widget_name(w, old_worker_name, new_worker_name) ==
    IF old_worker_name \in w.worker_widgets
    THEN [w EXCEPT !.worker_widgets = (@ \ {old_worker_name}) \cup {new_worker_name}]
    ELSE w

\* lines 29-31 and 42-50: the workers of the config file are loaded, in the
\* order of their names, until max_workers of them are shown
RECURSIVE load_workers(_, _)
load_workers(w, workers) ==
    IF workers = {} THEN w
    ELSE IF add_worker_widget(w, CHOOSE n \in workers : \A m \in workers : n <= m).num_of_workers
              >= max_workers
    THEN add_worker_widget(w, CHOOSE n \in workers : \A m \in workers : n <= m)
    ELSE load_workers(add_worker_widget(w, CHOOSE n \in workers : \A m \in workers : n <= m),
                      workers \ {CHOOSE n \in workers : \A m \in workers : n <= m})

MainView(workers) ==
    load_workers([num_of_workers |-> 0, worker_widgets |-> {}, add_worker_button |-> TRUE],
                 workers)

(* ----------------------- staggered orders ------------------------------- *)
\* staggered_orders.py, tick(): the ticks the model lets the worker see
MaxStaggeredCounter == 6

\* configure(): the defaults of 'upper_bound' and of 'lower_bound'
default_upper_bound == R(1, 1)
default_lower_bound == R(1000, 1)
\* configure(): the default of 'increment', a percentage
default_increment == R(4, 1)

UpperBounds == {default_upper_bound, R(4, 1)}
LowerBounds == {default_lower_bound, R(2, 1), R(1, 2)}
StaggeredModes == {"mountain", "valley"}
\* what calculate_center_price() may return
CenterPrices == {R(1, 4), R(3, 1), R(500, 1), R(2000, 1)}
\* the calls into the base strategy may raise before the bounds check
\* (lines 73-89) or after it (lines 99-103)
Faults == {"none", "early", "late"}

\* __init__: the fields the constructor assigns. center is the centre price
\* of the latest tick's evaluation once it passed line 73, levels the prices
\* of the orders that evaluation placed, raised whether the tick raised
Constructed(mode, ub, lb) ==
    [mode |-> mode, increment |-> RDiv(default_increment, R(100, 1)), counter |-> 0,
     upper_bound |-> ub, lower_bound |-> lb,
     center |-> NoPrice, levels |-> {}, raised |-> FALSE]

\* lines 91-95
check_boundaries(s, market_center_price) ==
    IF RGt(market_center_price, s.upper_bound)
    THEN [s EXCEPT !.upper_bound = market_center_price]
    ELSE IF RLt(market_center_price, s.lower_bound)
    THEN [s EXCEPT !.lower_bound = market_center_price]
    ELSE s

\* lines 109-111: pass
maintain_mountain_mode(s) == s

\* lines 105-107
maintain_mode(s) == IF s.mode = "mountain" THEN maintain_mountain_mode(s) ELSE s

\* lines 67-107. The strategy defines neither allocate_base() nor
\* shift_orders_up() (lines 100, 103); no line of it computes a price from
\* the increment or places an order, so levels is left as it is
staggered_maintain_strategy(s, market_center_price, fault) ==
    IF fault = "early" THEN [s EXCEPT !.raised = TRUE]
    ELSE IF fault = "late"
    THEN [check_boundaries(s, market_center_price)
            EXCEPT !.center = market_center_price, !.raised = TRUE]
    ELSE maintain_mode([check_boundaries(s, market_center_price)
                          EXCEPT !.center = market_center_price])

\* line 117, which an exception of line 116 skips
staggered_counted(s) == IF s.raised THEN s ELSE [s EXCEPT !.counter = s.counter + 1]

\* lines 113-117
staggered_tick(s, market_center_price, fault) ==
    IF s.counter % 5 = 0
    THEN staggered_counted(staggered_maintain_strategy(s, market_center_price, fault))
    ELSE staggered_counted(s)

\* the worker as a tick finds it
staggered_entered == [staggered EXCEPT !.center = NoPrice, !.levels = {}, !.raised = FALSE]

(* ------------------- the strategy object as a record -------------------- *)
\* The fields a handler reads and writes, the exchange state it acts on, and
\* whether an exception is propagating out of it.
Self ==
    [orders |-> orders,
     top_buy_price |-> top_buy_price, top_sell_price |-> top_sell_price,
     buy_order_to_beat |-> buy_order_to_beat,
     sell_order_to_beat |-> sell_order_to_beat,
     beaten_buy_order |-> beaten_buy_order,
     beaten_sell_order |-> beaten_sell_order,
     last_check |-> last_check, disabled |-> disabled,
     own |-> own, snapshot |-> {}, calls |-> <<>>, raised |-> FALSE]

upper_bound == worker.upper_bound
lower_bound == worker.lower_bound
min_check_interval == worker.min_order_lifetime

\* amount_quote / amount_base properties (relative_order_size is off)
amount_quote == worker.sell_order_amount
amount_base  == worker.buy_order_amount

(* ----------------------------- exchange -------------------------------- *)
\* get_market_orders(depth=100): every open order of the market, the
\* account's own orders included
get_market_orders(s) ==
    {o \in ForeignOrders : o.id \in book}
        \cup {[id |-> o.id, side |-> o.side, price |-> o.price, amount |-> o.amount] : o \in s.own}

\* "no such order": the None an order lookup or a search returns
NoOrder == [id |-> None]

\* get_order(order_id): the open order with that id, or None
get_order(s, id) ==
    IF \E o \in s.own : o.id = id THEN CHOOSE o \in s.own : o.id = id
    ELSE IF id \in book THEN CHOOSE o \in ForeignOrders : o.id = id
    ELSE NoOrder

\* the price field of an own order as get_order returns it: a sell order is
\* quoted the other way round
order_price(o) == IF o.side = "sell" THEN RInv(o.price) ELSE o.price

\* the id the exchange gives a new order of one side: one that no open
\* order has and that the worker does not remember for the other side
new_id(s, order_type) ==
    LET used == {o.id : o \in s.own} \cup {s.orders[x] : x \in Sides \ {order_type}}
    IN  CHOOSE i \in OwnIdBase + 1 .. OwnIdBase + 4 :
            /\ i \notin used
            /\ \A j \in OwnIdBase + 1 .. i - 1 : j \in used

\* best-first order of one side of the book: highest price first for buy
\* orders, lowest (inverted) price first for sell orders
RECURSIVE best_first(_, _)
best_first(os, side) ==
    IF os = {} THEN <<>>
    ELSE LET b == CHOOSE o \in os : \A x \in os :
                      IF side = "buy" THEN RGe(o.price, x.price)
                                      ELSE RLe(o.price, x.price)
         IN  <<b>> \o best_first(os \ {b}, side)

filter_buy_orders(os)  == best_first({o \in os : o.side = "buy"}, "buy")
filter_sell_orders(os) == best_first({o \in os : o.side = "sell"}, "sell")

(* ----------------------------- get_top_prices --------------------------- *)
RECURSIVE first_above_ge(_, _)
first_above_ge(os, threshold) ==
    IF os = <<>> THEN NoOrder
    ELSE IF RGe(Head(os).amount, threshold) THEN Head(os)
    ELSE first_above_ge(Tail(os), threshold)

\* for order in orders: if amount > threshold: ...; break
RECURSIVE first_above(_, _)
first_above(os, threshold) ==
    IF os = <<>> THEN NoOrder
    ELSE IF RGt(Head(os).amount, threshold) THEN Head(os)
    ELSE first_above(Tail(os), threshold)

\* the loop over the sell orders found ts and the loop over the buy orders
\* found tb (None: no order was above the threshold, the fields keep their values)
set_top_prices(s, all, ts, tb) ==
    [s EXCEPT
        !.top_sell_price = IF ts.id = None THEN @
                           ELSE IF RLt(ts.price, lower_bound) THEN lower_bound ELSE ts.price,
        !.sell_order_to_beat = IF ts.id = None THEN @ ELSE ts.id,
        !.top_buy_price = IF tb.id = None THEN @
                          ELSE IF RGt(tb.price, upper_bound) THEN upper_bound ELSE tb.price,
        !.buy_order_to_beat = IF tb.id = None THEN @ ELSE tb.id,
        !.snapshot = all,
        !.calls = Append(@, [op |-> "get_market_orders"])]

foreign_orders_all(s, all) == all

\* the market orders without the account's own orders
foreign_orders(s, all) == {o \in all : o.id \notin {x.id : x \in s.own}}

sell_order_size_threshold ==
    IF RIsZero(worker.sell_order_size_threshold) THEN amount_quote
    ELSE worker.sell_order_size_threshold

buy_order_size_threshold ==
    IF RIsZero(worker.buy_order_size_threshold) THEN amount_base
    ELSE worker.buy_order_size_threshold

top_prices_of(s, all, market_orders) ==
    set_top_prices(s, all,
                   first_above(filter_sell_orders(market_orders), sell_order_size_threshold),
                   first_above(filter_buy_orders(market_orders), buy_order_size_threshold))

top_prices_in(s, all) == top_prices_of(s, all, foreign_orders(s, all))

get_top_prices(s) == top_prices_in(s, get_market_orders(s))

(* ----------------------------- place_order ------------------------------ *)
is_too_small_amounts_le(amount_q, amount_b) ==
    \/ RLe(amount_q, Unit(market.quote))
    \/ RLe(amount_b, Unit(market.base))

is_too_small_amounts(amount_q, amount_b) ==
    \/ RLt(amount_q, Unit(market.quote))
    \/ RLt(amount_b, Unit(market.base))

RECURSIVE buy_loop_lt(_, _, _)
buy_loop_lt(amount_b, amount_q, top) ==
    IF RIsZero(amount_q) THEN [raised |-> TRUE, amount_quote |-> amount_q]
    ELSE IF RLt(RDiv(amount_b, amount_q), top)
         THEN buy_loop_lt(amount_b, RSub(amount_q, Unit(market.quote)), top)
         ELSE [raised |-> FALSE, amount_quote |-> amount_q]

\* price = amount_base / amount_quote; while price <= top_buy_price:
\* amount_quote -= 10^-precision; price = amount_base / amount_quote.
\* Dividing by a zero amount_quote raises decimal.DivisionByZero.
RECURSIVE buy_loop(_, _, _)
buy_loop(amount_b, amount_q, top) ==
    IF RIsZero(amount_q) THEN [raised |-> TRUE, amount_quote |-> amount_q]
    ELSE IF RLe(RDiv(amount_b, amount_q), top)
         THEN buy_loop(amount_b, RSub(amount_q, Unit(market.quote)), top)
         ELSE [raised |-> FALSE, amount_quote |-> amount_q]

RECURSIVE sell_loop_gt(_, _, _)
sell_loop_gt(amount_q, amount_b, top) ==
    IF RGt(RDiv(amount_b, amount_q), top)
    THEN sell_loop_gt(amount_q, RSub(amount_b, Unit(market.base)), top)
    ELSE amount_b

\* price = amount_base / amount_quote; while price >= top_sell_price:
\* amount_base -= 10^-precision; price = amount_base / amount_quote
RECURSIVE sell_loop(_, _, _)
sell_loop(amount_q, amount_b, top) ==
    IF RGe(RDiv(amount_b, amount_q), top)
    THEN sell_loop(amount_q, RSub(amount_b, Unit(market.base)), top)
    ELSE amount_b

no_reference_price_silent(s) == s

\* log.error('Cannot determine top ... price ...'); self.disabled = True; return
no_reference_price(s) == [s EXCEPT !.disabled = TRUE]

zero_amount_silent(s) == s

\* log.error('Cannot place ... order with 0 amount ...'); self.disabled = True; return
zero_amount(s) == [s EXCEPT !.disabled = TRUE]

\* what a place_order call reports to the log: how it ended and the values
\* it computed
NoInfo == [outcome |-> "", price |-> Zero, derived |-> Zero,
           amount_quote |-> Zero, amount_base |-> Zero]

\* an accepted order that also clears the disabled flag
with_order_enabling(s, order_type, price, amount, id) ==
    [s EXCEPT !.orders[order_type] = id,
              !.disabled = FALSE,
              !.own = @ \cup {[id |-> id, side |-> order_type, price |-> price,
                               amount |-> amount, pfilled |-> FALSE]}]

\* the id the exchange gives a new order
with_order(s, order_type, price, amount, id) ==
    [s EXCEPT !.orders[order_type] = id,
              !.own = @ \cup {[id |-> id, side |-> order_type, price |-> price,
                               amount |-> amount, pfilled |-> FALSE]}]

\* the tail of place_order: the exchange call has returned new_order
\* (accepted: an order; otherwise None)
record_order(s, order_type, accepted, price, amount) ==
    IF accepted THEN with_order(s, order_type, price, amount, new_id(s, order_type))
    ELSE s

buy_clamp_none(price) == price

\* Limit price by upper bound
buy_clamp(price) == IF RGt(price, upper_bound) THEN upper_bound ELSE price

sell_clamp_none(price) == price

\* Limit price by lower bound
sell_clamp(price) == IF RLt(price, lower_bound) THEN lower_bound ELSE price

\* buy: the dust check and the exchange call
buy_submit(s, accepted, info) ==
    IF is_too_small_amounts(info.amount_quote, info.amount_base)
    THEN [s |-> s, info |-> [info EXCEPT !.outcome = "too small"]]
    ELSE [s |-> [record_order(s, "buy", accepted, info.price,
                              RMul(info.amount_quote, info.price))
                    EXCEPT !.beaten_buy_order = s.buy_order_to_beat],
          info |-> [info EXCEPT !.outcome = IF accepted THEN "placed" ELSE "failed"]]

\* buy: a clamped price recomputes amount_quote = amount_base / price
buy_clamped(s, accepted, amount_b, amount_q, derived, price) ==
    buy_submit(s, accepted,
               [outcome |-> "", price |-> price, derived |-> derived,
                amount_quote |-> IF price # derived THEN RDiv(amount_b, price) ELSE amount_q,
                amount_base |-> amount_b])

buy_priced(s, accepted, amount_b, amount_q, derived) ==
    buy_clamped(s, accepted, amount_b, amount_q, derived, buy_clamp(derived))

buy_looped(s, accepted, amount_b, loop) ==
    IF loop.raised
    THEN [s |-> [s EXCEPT !.raised = TRUE],
          info |-> [NoInfo EXCEPT !.outcome = "raised", !.amount_base = amount_b]]
    ELSE buy_priced(s, accepted, amount_b, loop.amount_quote,
                    RDiv(amount_b, loop.amount_quote))

buy_amount(s, accepted, amount_b) ==
    IF RIsZero(amount_b)
    THEN [s |-> zero_amount(s), info |-> [NoInfo EXCEPT !.outcome = "zero amount"]]
    ELSE buy_looped(s, accepted, amount_b,
                    buy_loop(amount_b,
                             Quantize(RDiv(amount_b, s.top_buy_price), market.quote),
                             s.top_buy_price))

place_buy(s, accepted) ==
    IF RIsZero(s.top_buy_price)
    THEN [s |-> no_reference_price(s), info |-> [NoInfo EXCEPT !.outcome = "no top price"]]
    ELSE buy_amount(s, accepted, Quantize(amount_base, market.base))

\* sell: the dust check and the exchange call
sell_submit(s, accepted, info) ==
    IF is_too_small_amounts(info.amount_quote, info.amount_base)
    THEN [s |-> s, info |-> [info EXCEPT !.outcome = "too small"]]
    ELSE [s |-> [record_order(s, "sell", accepted, info.price, info.amount_quote)
                    EXCEPT !.beaten_sell_order = s.sell_order_to_beat],
          info |-> [info EXCEPT !.outcome = IF accepted THEN "placed" ELSE "failed"]]

sell_priced(s, accepted, amount_q, amount_b, derived) ==
    sell_submit(s, accepted,
                [outcome |-> "", price |-> sell_clamp(derived), derived |-> derived,
                 amount_quote |-> amount_q, amount_base |-> amount_b])

sell_looped(s, accepted, amount_q, amount_b) ==
    sell_priced(s, accepted, amount_q, amount_b, RDiv(amount_b, amount_q))

sell_amount(s, accepted, amount_q) ==
    IF RIsZero(amount_q)
    THEN [s |-> zero_amount(s), info |-> [NoInfo EXCEPT !.outcome = "zero amount"]]
    ELSE sell_looped(s, accepted, amount_q,
                     sell_loop(amount_q,
                               Quantize(RMul(amount_q, s.top_sell_price), market.base),
                               s.top_sell_price))

place_sell(s, accepted) ==
    IF RIsZero(s.top_sell_price)
    THEN [s |-> no_reference_price(s), info |-> [NoInfo EXCEPT !.outcome = "no top price"]]
    ELSE sell_amount(s, accepted, Quantize(amount_quote, market.quote))

\* what a log entry keeps of the strategy's fields
Fields(s) ==
    [orders |-> s.orders, disabled |-> s.disabled,
     top_buy_price |-> s.top_buy_price, top_sell_price |-> s.top_sell_price,
     beaten_buy_order |-> s.beaten_buy_order,
     beaten_sell_order |-> s.beaten_sell_order]

\* place_order has run from s and ended as r
placed(s, order_type, r) ==
    [r.s EXCEPT !.calls =
        Append(s.calls, [op |-> "place_order", side |-> order_type, info |-> r.info,
                         before |-> Fields(s), after |-> Fields(r.s)])]

\* place_order(order_type); accepted is the exchange's answer to the
\* placement call, should the call be made.  Nothing runs once an
\* exception is propagating.
place_order(s, order_type, accepted) ==
    IF s.raised THEN s
    ELSE placed(s, order_type,
                IF order_type = "buy" THEN place_buy(s, accepted)
                ELSE place_sell(s, accepted))

(* ----------------------------- check_orders ----------------------------- *)
\* is_partially_filled(order, threshold=self.partial_fill_threshold)
is_partially_filled(order) == order.pfilled

\* cancel_orders(order); ok is the exchange's answer
cancel_orders(s, order, ok) ==
    [s EXCEPT !.own = IF ok THEN @ \ {order} ELSE @,
              !.calls = Append(@, [op |-> "cancel_orders", side |-> order.side,
                                   id |-> order.id, price |-> order.price,
                                   pfilled |-> order.pfilled, ok |-> ok,
                                   before |-> Fields(s)])]

need_cancel_fill_only(s, order_type, order) == is_partially_filled(order)

need_cancel_always(s, order_type, order) == TRUE

\* the conditions under which a live own order is cancelled
need_cancel(s, order_type, order) ==
    \/ is_partially_filled(order)
    \/ order_type = "buy"  /\ get_order(s, s.beaten_buy_order).id = None
    \/ order_type = "buy"  /\ RLt(order_price(order), s.top_buy_price)
    \/ order_type = "sell" /\ get_order(s, s.beaten_sell_order).id = None
    \/ order_type = "sell" /\ RGt(RInv(order_price(order)), s.top_sell_price)

\* the end of an iteration: place_order runs for an own order that is not
\* there, and for one whose cancellation succeeded
replace_order(s, order_type, wanted, resp) ==
    IF wanted THEN place_order(s, order_type, resp.place[order_type]) ELSE s

check_live_blind(s, order_type, order, cancel, resp) ==
    replace_order(IF cancel THEN cancel_orders(s, order, resp.cancel[order_type]) ELSE s,
                  order_type, cancel, resp)

\* an iteration whose own order is on the book: cancel it if need be
check_live(s, order_type, order, cancel, resp) ==
    replace_order(IF cancel THEN cancel_orders(s, order, resp.cancel[order_type]) ELSE s,
                  order_type, cancel /\ resp.cancel[order_type], resp)

check_found_skip(s, order_type, order, resp) ==
    IF order.id # None
    THEN check_live(s, order_type, order, need_cancel(s, order_type, order), resp)
    ELSE s

check_found(s, order_type, order, resp) ==
    IF order.id # None
    THEN check_live(s, order_type, order, need_cancel(s, order_type, order), resp)
    ELSE replace_order(s, order_type, TRUE, resp)

\* one iteration of the loop over the copied orders dict
check_order(s, order_type, order_id, resp) ==
    IF s.raised THEN s
    ELSE check_found(s, order_type, get_order(s, order_id), resp)

\* for order_type, order_id in orders.items(), orders the copy made on entry
RECURSIVE check_each(_, _, _, _)
check_each(s, copy, types, resp) ==
    IF types = <<>> THEN s
    ELSE check_each(IF copy[Head(types)] # None
                    THEN check_order(s, Head(types), copy[Head(types)], resp)
                    ELSE s,
                    copy, Tail(types), resp)

check_copied(s, resp) == check_each(s, s.orders, <<"buy", "sell">>, resp)

check_orders(s, resp) == check_copied(get_top_prices(s), resp)

(* ----------------------------- place_orders ----------------------------- *)
\* place_orders that places both sides whatever the mode
RECURSIVE place_each_all(_, _, _)
place_each_all(s, types, resp) ==
    IF types = <<>> THEN s
    ELSE place_each_all(place_order(s, Head(types), resp.place[Head(types)]),
                        Tail(types), resp)

\* if place_buy: place_order('buy'); if place_sell: place_order('sell')
RECURSIVE place_each(_, _, _)
place_each(s, types, resp) ==
    IF types = <<>> THEN s
    ELSE place_each(IF worker.mode \in {"both", Head(types)}
                    THEN place_order(s, Head(types), resp.place[Head(types)])
                    ELSE s,
                    Tail(types), resp)

place_orders(s, resp) == place_each(get_top_prices(s), <<"buy", "sell">>, resp)

(* ----------------------------- maintain_strategy ------------------------ *)
throttled_never(s) == FALSE

\* delta < timedelta(seconds=self.min_check_interval)
throttled(s) == now - s.last_check < min_check_interval

\* the invocation is entered in the log
entered(s, is_throttled) ==
    [s EXCEPT !.calls = Append(@, [op |-> "maintain_strategy", throttled |-> is_throttled])]

\* self.last_check = datetime.now(), unless an exception is propagating
checked(s) == IF s.raised THEN s ELSE [s EXCEPT !.last_check = now]

evaluate(s, resp) ==
    IF \E x \in Sides : s.orders[x] # None THEN check_orders(s, resp)
    ELSE place_orders(s, resp)

maintain_strategy(s, resp) ==
    IF throttled(s) THEN entered(s, TRUE)
    ELSE checked(evaluate(entered(s, FALSE), resp))

\* error(): the callback registered for exceptions escaping a handler
error(s) == [s EXCEPT !.disabled = TRUE]

\* The answers of the exchange during one invocation: whether the placement
\* and the cancellation of each side succeed.  An answer to a call the
\* invocation cannot make (inside the throttle window, a side the mode does
\* not trade, a cancel with no order remembered) is fixed to TRUE.
Responses ==
    {r \in [place : [Sides -> BOOLEAN], cancel : [Sides -> BOOLEAN]] :
        \A x \in Sides :
            /\ (throttled(Self) \/ worker.mode \notin {"both", x}) => r.place[x] /\ r.cancel[x]
            /\ orders[x] = None => r.cancel[x]}

\* the handler has returned, or raised and error() has run: its writes
\* become the object's state
Written(t) ==
    /\ orders' = t.orders
    /\ top_buy_price' = t.top_buy_price
    /\ top_sell_price' = t.top_sell_price
    /\ buy_order_to_beat' = t.buy_order_to_beat
    /\ sell_order_to_beat' = t.sell_order_to_beat
    /\ beaten_buy_order' = t.beaten_buy_order
    /\ beaten_sell_order' = t.beaten_sell_order
    /\ last_check' = t.last_check
    /\ disabled' = t.disabled
    /\ own' = t.own
    /\ snapshot' = t.snapshot
    /\ calls' = t.calls

\* the sides whose placement call the exchange refused (new_order is None)
unplaced_sides(s) ==
    {x \in Sides : \E i \in DOMAIN s.calls :
        /\ s.calls[i].op = "place_order"
        /\ s.calls[i].side = x
        /\ s.calls[i].info.outcome = "failed"}

\* no exchange call of the invocation was refused
all_answered(s) ==
    \A i \in DOMAIN s.calls :
        /\ s.calls[i].op = "place_order" => s.calls[i].info.outcome # "failed"
        /\ s.calls[i].op = "cancel_orders" => s.calls[i].ok

\* an invocation that got past the throttle is remembered: whether the
\* exchange answered all its calls, and the sides whose placement it refused
Remembered(s) ==
    prior' = IF s.calls # <<>> /\ ~s.calls[1].throttled
             THEN [settled |-> all_answered(s), unplaced |-> unplaced_sides(s)]
             ELSE prior

Commit(s) == Written(IF s.raised THEN error(s) ELSE s) /\ Remembered(s)

\* tick(): the counter moves on unless maintain_strategy raised
Ticked(s) ==
    /\ Commit(s)
    /\ counter' = IF s.raised THEN counter ELSE counter + 1

\* the foreign orders a run lets appear: a one-sided worker is explored
\* against the side of the book it reads its reference price from
Traded ==
    {o.id : o \in {x \in ForeignOrders : worker.mode \in {"both", "off", x.side}}}

(* ----------------------------- actions ---------------------------------- *)
\* onMarketUpdate += maintain_strategy
OnMarketUpdate ==
    /\ \E resp \in Responses : Commit(maintain_strategy(Self, resp))
    /\ UNCHANGED <<conf, window, walls, storage, staggered, pc, worker, market, counter, now, book>>

\* ontick += tick
Tick ==
    /\ counter < MaxCounter
    /\ IF counter % 4 = 0
       THEN \E resp \in Responses : Ticked(maintain_strategy(Self, resp))
       ELSE Ticked(Self)
    /\ UNCHANGED <<conf, window, walls, storage, staggered, pc, worker, market, now, book>>

\* a step of the environment: the worker fetches nothing and calls nothing
Quiet == snapshot' = {} /\ calls' = <<>>

\* the book or an own order has changed since the latest evaluation
Unsettled == prior' = [prior EXCEPT !.settled = FALSE]

\* the clock
AdvanceTime ==
    /\ now < StartTime + MaxTime
    /\ now' = now + 1
    /\ Quiet
    /\ UNCHANGED <<conf, window, walls, storage, staggered, pc, worker, market, counter, strategyVars, book, own, prior>>

\* another account places or removes an order
ForeignChange ==
    /\ \E id \in Traded : book' = IF id \in book THEN book \ {id} ELSE book \cup {id}
    /\ Quiet
    /\ Unsettled
    /\ UNCHANGED <<conf, window, walls, storage, staggered, pc, worker, market, counter, strategyVars, now, own>>

\* an own order is filled completely and leaves the book
OwnFilled ==
    /\ \E o \in own : own' = own \ {o}
    /\ Quiet
    /\ Unsettled
    /\ UNCHANGED <<conf, window, walls, storage, staggered, pc, worker, market, counter, strategyVars, now, book>>

\* an own order is filled beyond the partial-fill threshold
OwnPartlyFilled ==
    /\ \E o \in own : /\ ~o.pfilled
                      /\ own' = (own \ {o}) \cup {[o EXCEPT !.pfilled = TRUE]}
    /\ Quiet
    /\ Unsettled
    /\ UNCHANGED <<conf, window, walls, storage, staggered, pc, worker, market, counter, strategyVars, now, book>>

(* ----------------------------- Init ------------------------------------- *)
\* the configurations explored: a one-sided worker draws the settings of
\* its side and keeps the defaults (0) for the side it never trades; a
\* two-sided worker draws one amount for both sides, leaves the thresholds
\* at their default and trades assets of equal precision
Workers ==
    LET one(m, ba, sa, bt, st, ub, lb, life) ==
            [mode |-> m, buy_order_amount |-> ba, sell_order_amount |-> sa,
             buy_order_size_threshold |-> bt, sell_order_size_threshold |-> st,
             upper_bound |-> ub, lower_bound |-> lb, min_order_lifetime |-> life]
    IN  {one("buy", a, Zero, t, Zero, ub, Zero, life) :
            a \in AmountChoices, t \in ThresholdChoices,
            ub \in UpperBoundChoices, life \in LifetimeChoices}
        \cup
        {one("sell", Zero, a, Zero, t, Zero, lb, life) :
            a \in AmountChoices, t \in ThresholdChoices,
            lb \in LowerBoundChoices, life \in LifetimeChoices}
        \cup
        {one("both", a, a, Zero, Zero, b[1], b[2], 1) :
            a \in AmountChoices, b \in {<<R(10, 1), Zero>>, <<R(2, 1), R(1, 1)>>}}
        \cup
        {one("off", R(1, 1), R(1, 1), Zero, Zero, R(10, 1), Zero, 1)}

Init ==
    /\ worker \in Workers
    /\ market \in [base : Precisions, quote : Precisions]
    /\ worker.mode = "both" => market.base = market.quote
    /\ counter = 0
    /\ orders = [x \in Sides |-> None]
    /\ top_buy_price = Zero
    /\ top_sell_price = Zero
    /\ buy_order_to_beat = None
    /\ sell_order_to_beat = None
    /\ beaten_buy_order = None
    /\ beaten_sell_order = None
    /\ last_check = 0
    /\ disabled = FALSE
    /\ now = StartTime
    /\ book \in SUBSET Traded
    /\ own = {}
    /\ snapshot = {}
    /\ calls = <<>>
    /\ prior = [settled |-> FALSE, unplaced |-> {}]
    /\ pc = [h \in Handlers |-> "idle"]
    /\ storage = EmptyStorage
    /\ walls = WallsConstructed(0, NoPrice, FALSE, FALSE, 0)
    /\ window = MainView({})
    /\ conf = Imported(<<>>)
    /\ staggered = Constructed("mountain", default_upper_bound, default_lower_bound)

\* the worker driven by market updates
Next ==
    \/ OnMarketUpdate
    \/ AdvanceTime
    \/ ForeignChange
    \/ OwnFilled
    \/ OwnPartlyFilled

Spec == Init /\ [][Next]_vars

\* the worker driven by block ticks and market updates, for a one-sided or
\* idle worker with order size 1, the default thresholds and bounds that
\* never clamp
InitTick ==
    /\ Init
    /\ worker.mode # "both"
    /\ worker.buy_order_amount \in {Zero, R(1, 1)}
    /\ worker.sell_order_amount \in {Zero, R(1, 1)}
    /\ worker.buy_order_size_threshold = Zero
    /\ worker.sell_order_size_threshold = Zero
    /\ worker.upper_bound \in {Zero, R(10, 1)}
    /\ worker.lower_bound = Zero
    /\ worker.min_order_lifetime = 1
    /\ market.base = market.quote

NextTick ==
    \/ Tick
    \/ OnMarketUpdate
    \/ AdvanceTime
    \/ ForeignChange
    \/ OwnFilled
    \/ OwnPartlyFilled

SpecTick == InitTick /\ [][NextTick]_vars

(* ------------------- several evaluations in a row ----------------------- *)
MaxElapsed == 2       \* the clock of SpecCycle runs to StartTime + MaxElapsed

\* the clock of a longer run
Elapse ==
    /\ now < StartTime + MaxElapsed
    /\ now' = now + 1
    /\ Quiet
    /\ UNCHANGED <<conf, window, walls, storage, staggered, pc, worker, market, counter, strategyVars, book, own, prior>>

\* a worker with order size 1, the default thresholds and the shortest
\* order lifetime, trading assets of equal precision
InitCycle ==
    /\ Init
    /\ worker.mode # "off"
    /\ worker.buy_order_amount \in {Zero, R(1, 1)}
    /\ worker.sell_order_amount \in {Zero, R(1, 1)}
    /\ worker.buy_order_size_threshold = Zero
    /\ worker.sell_order_size_threshold = Zero
    /\ worker.upper_bound \in {Zero, R(10, 1)}
    /\ worker.lower_bound = Zero
    /\ worker.min_order_lifetime = 1
    /\ market.base = market.quote

NextCycle ==
    \/ OnMarketUpdate
    \/ Elapse
    \/ ForeignChange
    \/ OwnFilled
    \/ OwnPartlyFilled

SpecCycle == InitCycle /\ [][NextCycle]_vars

(* ------------------- overlapping handlers ------------------------------- *)
\* maintain_strategy taken in the three steps between which another handler
\* can run when the two notifications are handled concurrently: the throttle
\* test with the test of self.orders, the evaluation, and the write of
\* last_check.

\* tick() calls maintain_strategy on every fourth tick
Calls(h) == h = "market" \/ (counter < MaxCounter /\ counter % 4 = 0)

\* lines 95-100: the handler returns inside the throttle window, else it
\* goes on to check_orders or to place_orders
Begin(h) ==
    /\ pc[h] = "idle"
    /\ Calls(h)
    /\ pc' = [pc EXCEPT ![h] = IF throttled(Self) THEN "idle"
                               ELSE IF \E x \in Sides : orders[x] # None THEN "checking"
                               ELSE "placing"]
    /\ counter' = IF h = "tick" /\ throttled(Self) THEN counter + 1 ELSE counter
    /\ snapshot' = {}
    /\ calls' = <<[op |-> "maintain_strategy", throttled |-> throttled(Self)]>>
    /\ UNCHANGED <<conf, window, walls, storage, staggered, worker, market, strategyVars, now, book, own, prior>>

\* the answers of the exchange to a handler that is past the throttle
BodyResponses ==
    {r \in [place : [Sides -> BOOLEAN], cancel : [Sides -> BOOLEAN]] :
        \A x \in Sides :
            /\ worker.mode \notin {"both", x} => r.place[x] /\ r.cancel[x]
            /\ orders[x] = None => r.cancel[x]}

body(s, stage, resp) ==
    IF stage = "checking" THEN check_orders(s, resp) ELSE place_orders(s, resp)

\* the handler has run check_orders or place_orders; an exception ends it
Ran(h, s) ==
    /\ Commit(s)
    /\ pc' = [pc EXCEPT ![h] = IF s.raised THEN "idle" ELSE "leaving"]

\* lines 101 / 103
Body(h) ==
    /\ pc[h] \in {"checking", "placing"}
    /\ \E resp \in BodyResponses : Ran(h, body(entered(Self, FALSE), pc[h], resp))
    /\ UNCHANGED <<conf, window, walls, storage, staggered, worker, market, counter, now, book>>

\* line 105, and the counter of tick()
Finish(h) ==
    /\ pc[h] = "leaving"
    /\ last_check' = now
    /\ pc' = [pc EXCEPT ![h] = "idle"]
    /\ counter' = IF h = "tick" THEN counter + 1 ELSE counter
    /\ Quiet
    /\ UNCHANGED <<conf, window, walls, storage, staggered, worker, market, orders, top_buy_price, top_sell_price,
                   buy_order_to_beat, sell_order_to_beat, beaten_buy_order,
                   beaten_sell_order, disabled, now, book, own, prior>>

\* a tick that does not call maintain_strategy
SkipTick ==
    /\ pc["tick"] = "idle"
    /\ counter < MaxCounter
    /\ counter % 4 # 0
    /\ counter' = counter + 1
    /\ Quiet
    /\ UNCHANGED <<conf, window, walls, storage, staggered, pc, worker, market, strategyVars, now, book, own, prior>>

\* a buying worker with order size 1 and a bound that never clamps
InitOverlap ==
    /\ InitCycle
    /\ worker.mode = "buy"
    /\ worker.upper_bound = R(10, 1)

NextOverlap ==
    \/ \E h \in Handlers : Begin(h)
    \/ \E h \in Handlers : Body(h)
    \/ \E h \in Handlers : Finish(h)
    \/ SkipTick
    \/ AdvanceTime
    \/ ForeignChange
    \/ OwnFilled
    \/ OwnPartlyFilled

SpecOverlap == InitOverlap /\ [][NextOverlap]_vars

(* ------------------- get_top_prices on its own -------------------------- *)
\* size thresholds below, at and above the sizes of the foreign orders
TopThresholds == {Zero, R(3, 2), R(2, 1), R(5, 1)}

InitTop ==
    /\ worker \in {[mode |-> "both", buy_order_amount |-> R(1, 1),
                    sell_order_amount |-> R(1, 1),
                    buy_order_size_threshold |-> bt, sell_order_size_threshold |-> st,
                    upper_bound |-> ub, lower_bound |-> lb, min_order_lifetime |-> 1] :
                       bt \in TopThresholds, st \in TopThresholds,
                       ub \in {R(2, 1), R(10, 1)}, lb \in {Zero, R(1, 1)}}
    /\ market = [base |-> 0, quote |-> 0]
    /\ counter = 0
    /\ orders = [x \in Sides |-> None]
    /\ top_buy_price = Zero
    /\ top_sell_price = Zero
    /\ buy_order_to_beat = None
    /\ sell_order_to_beat = None
    /\ beaten_buy_order = None
    /\ beaten_sell_order = None
    /\ last_check = 0
    /\ disabled = FALSE
    /\ now = StartTime
    /\ book \in SUBSET ForeignIds
    /\ own = {}
    /\ snapshot = {}
    /\ calls = <<>>
    /\ prior = [settled |-> FALSE, unplaced |-> {}]
    /\ pc = [h \in Handlers |-> "idle"]
    /\ storage = EmptyStorage
    /\ walls = WallsConstructed(0, NoPrice, FALSE, FALSE, 0)
    /\ window = MainView({})
    /\ conf = Imported(<<>>)
    /\ staggered = Constructed("mountain", default_upper_bound, default_lower_bound)

\* one call of get_top_prices()
FetchTop ==
    /\ Written(get_top_prices(Self))
    /\ UNCHANGED <<conf, window, walls, storage, staggered, pc, worker, market, counter, now, book, prior>>

NextTop ==
    \/ FetchTop
    \/ ForeignChange

SpecTop == InitTop /\ [][NextTop]_vars

(* ------------------- is_too_small_amounts on its own -------------------- *)
DustPrecision == 2    \* the precisions of the dust check range over 0..DustPrecision

\* amounts around the smallest units of the precisions, in thousandths
DustAmounts == {R(k, 1000) : k \in {0, 4, 9, 10, 11, 99, 100, 101, 999, 1000, 1001}}

InitDust ==
    /\ worker = [mode |-> "off", buy_order_amount |-> R(1, 1), sell_order_amount |-> R(1, 1),
                 buy_order_size_threshold |-> Zero, sell_order_size_threshold |-> Zero,
                 upper_bound |-> R(10, 1), lower_bound |-> Zero, min_order_lifetime |-> 1]
    /\ market \in [base : 0 .. DustPrecision, quote : 0 .. DustPrecision]
    /\ counter = 0
    /\ orders = [x \in Sides |-> None]
    /\ top_buy_price = Zero
    /\ top_sell_price = Zero
    /\ buy_order_to_beat = None
    /\ sell_order_to_beat = None
    /\ beaten_buy_order = None
    /\ beaten_sell_order = None
    /\ last_check = 0
    /\ disabled = FALSE
    /\ now = StartTime
    /\ book = {}
    /\ own = {}
    /\ snapshot = {}
    /\ calls = <<>>
    /\ prior = [settled |-> FALSE, unplaced |-> {}]
    /\ pc = [h \in Handlers |-> "idle"]
    /\ storage = EmptyStorage
    /\ walls = WallsConstructed(0, NoPrice, FALSE, FALSE, 0)
    /\ window = MainView({})
    /\ conf = Imported(<<>>)
    /\ staggered = Constructed("mountain", default_upper_bound, default_lower_bound)

\* one call of is_too_small_amounts(amount_quote, amount_base)
CheckAmounts ==
    /\ \E aq \in DustAmounts, ab \in DustAmounts :
          calls' = <<[op |-> "is_too_small_amounts", amount_quote |-> aq, amount_base |-> ab,
                      result |-> is_too_small_amounts(aq, ab)]>>
    /\ UNCHANGED <<conf, window, walls, storage, staggered, pc, worker, market, counter, strategyVars, now, book, own, snapshot, prior>>

NextDust == CheckAmounts

SpecDust == InitDust /\ [][NextDust]_vars

(* --------------------- the staggered-orders worker ---------------------- *)
\* the king-of-the-hill worker stays as constructed
InitIdle ==
    /\ worker = [mode |-> "off", buy_order_amount |-> R(1, 1), sell_order_amount |-> R(1, 1),
                 buy_order_size_threshold |-> Zero, sell_order_size_threshold |-> Zero,
                 upper_bound |-> R(10, 1), lower_bound |-> Zero, min_order_lifetime |-> 1]
    /\ market = [base |-> 0, quote |-> 0]
    /\ counter = 0
    /\ orders = [x \in Sides |-> None]
    /\ top_buy_price = Zero
    /\ top_sell_price = Zero
    /\ buy_order_to_beat = None
    /\ sell_order_to_beat = None
    /\ beaten_buy_order = None
    /\ beaten_sell_order = None
    /\ last_check = 0
    /\ disabled = FALSE
    /\ now = StartTime
    /\ book = {}
    /\ own = {}
    /\ snapshot = {}
    /\ calls = <<>>
    /\ prior = [settled |-> FALSE, unplaced |-> {}]
    /\ pc = [h \in Handlers |-> "idle"]

InitStaggered ==
    /\ InitIdle
    /\ storage = EmptyStorage
    /\ walls = WallsConstructed(0, NoPrice, FALSE, FALSE, 0)
    /\ window = MainView({})
    /\ conf = Imported(<<>>)
    /\ staggered \in {Constructed(m, ub, lb) :
                         m \in StaggeredModes, ub \in UpperBounds, lb \in LowerBounds}

\* ontick += tick
StaggeredTick ==
    /\ staggered.counter < MaxStaggeredCounter
    /\ \E c \in CenterPrices, f \in Faults :
          staggered' = staggered_tick(staggered_entered, c, f)
    /\ UNCHANGED <<kothVars, prior, pc, storage, walls, window, conf>>

NextStaggered == StaggeredTick

SpecStaggered == InitStaggered /\ [][NextStaggered]_vars

(* ------------------------- the order storage ---------------------------- *)
\* the workers stay as constructed
InitStorage ==
    /\ InitStaggered
    /\ staggered = Constructed("mountain", default_upper_bound, default_lower_bound)

\* the ids of the orders an exchange hands out are all different
Fresh(order) == \A i \in DOMAIN storage.rows : storage.rows[i].order_id # order.id

SaveOrder ==
    /\ Len(storage.rows) < MaxRows
    /\ \E order \in StoredOrders :
          /\ Fresh(order)
          /\ storage' = [rows |-> save_order(storage.rows, order),
                         saved |-> storage.saved \cup
                                     {[order |-> order, virtual |-> FALSE, custom |-> NoCustom]},
                         fetched |-> [op |-> "save_order"]]
    /\ UNCHANGED <<kothVars, prior, pc, staggered, walls, window, conf>>

SaveOrderExtended ==
    /\ Len(storage.rows) < MaxRows
    /\ \E order \in StoredOrders, virtual \in BOOLEAN, custom \in Customs \cup {NoCustom} :
          /\ Fresh(order)
          /\ storage' = [rows |-> save_order_extended(storage.rows, order, virtual, custom),
                         saved |-> storage.saved \cup
                                     {[order |-> order, virtual |-> virtual, custom |-> custom]},
                         fetched |-> [op |-> "save_order_extended"]]
    /\ UNCHANGED <<kothVars, prior, pc, staggered, walls, window, conf>>

FetchOrders ==
    /\ storage' = [storage EXCEPT !.fetched =
                      [op |-> "fetch_orders", result |-> fetch_orders(storage.rows)]]
    /\ UNCHANGED <<kothVars, prior, pc, staggered, walls, window, conf>>

FetchOrdersExtended ==
    /\ \E only_virtual, only_real, return_ids_only \in BOOLEAN, custom \in Customs \cup {NoCustom} :
          storage' = [storage EXCEPT !.fetched =
                        [op |-> "fetch_orders_extended", only_virtual |-> only_virtual,
                         only_real |-> only_real, custom |-> custom,
                         return_ids_only |-> return_ids_only,
                         result |-> fetch_orders_extended(storage.rows, only_virtual, only_real,
                                                          custom, return_ids_only)]]
    /\ UNCHANGED <<kothVars, prior, pc, staggered, walls, window, conf>>

NextStorage ==
    \/ SaveOrder
    \/ SaveOrderExtended
    \/ FetchOrders
    \/ FetchOrdersExtended

SpecStorage == InitStorage /\ [][NextStorage]_vars

(* --------------------------- the walls worker --------------------------- *)
InitWalls ==
    /\ InitIdle
    /\ staggered = Constructed("mountain", default_upper_bound, default_lower_bound)
    /\ storage = EmptyStorage
    /\ window = MainView({})
    /\ conf = Imported(<<>>)
    /\ walls \in {WallsConstructed(n, feed_price, ib, is, test_blocks) :
                     n \in 0 .. MaxWallsOrders, feed_price \in WallsPrices \cup {NoPrice},
                     ib \in BOOLEAN, is \in BOOLEAN, test_blocks \in TestBlocks}

\* onMarketUpdate += test
WallsTest ==
    /\ \E price, later \in WallsPrices, balance, left \in WallsBalances :
          walls' = walls_test(walls, price, later, balance, left)
    /\ UNCHANGED <<kothVars, prior, pc, staggered, storage, window, conf>>

\* ontick += tick
WallsTick ==
    /\ walls.blocks < MaxWallsBlocks
    /\ \E price, later \in WallsPrices, balance, left \in WallsBalances :
          walls' = walls_tick(walls, price, later, balance, left)
    /\ UNCHANGED <<kothVars, prior, pc, staggered, storage, window, conf>>

\* an own order is filled, or the account opens another order by hand
WallsOrdersChange ==
    /\ \E n \in {walls.orders - 1, walls.orders + 1} \cap (0 .. MaxWallsOrders) :
          walls' = [walls EXCEPT !.orders = n, !.placed = {}, !.log = <<>>]
    /\ UNCHANGED <<kothVars, prior, pc, staggered, storage, window, conf>>

NextWalls ==
    \/ WallsTest
    \/ WallsTick
    \/ WallsOrdersChange

SpecWalls == InitWalls /\ [][NextWalls]_vars

(* ---------------------------- the main window --------------------------- *)
\* the window is opened on a config file with any number of workers
InitWindow ==
    /\ InitIdle
    /\ staggered = Constructed("mountain", default_upper_bound, default_lower_bound)
    /\ storage = EmptyStorage
    /\ walls = WallsConstructed(0, NoPrice, FALSE, FALSE, 0)
    /\ window \in {MainView(1 .. k) : k \in 0 .. MaxNames}
    /\ conf = Imported(<<>>)

AddWorkerWidget ==
    /\ window.num_of_workers < max_workers + MaxDrift
    /\ \E worker_name \in WorkerNames : window' = add_worker_widget(window, worker_name)
    /\ UNCHANGED <<kothVars, prior, pc, staggered, storage, walls, conf>>

RemoveWorkerWidget ==
    /\ window.num_of_workers > -MaxDrift
    /\ \E worker_name \in WorkerNames : window' = remove_worker_widget(window, worker_name)
    /\ UNCHANGED <<kothVars, prior, pc, staggered, storage, walls, conf>>

ChangeWorkerWidgetName ==
    /\ \E old_worker_name, new_worker_name \in WorkerNames :
          window' = change_worker_widget_name(window, old_worker_name, new_worker_name)
    /\ UNCHANGED <<kothVars, prior, pc, staggered, storage, walls, conf>>

NextWindow ==
    \/ AddWorkerWidget
    \/ RemoveWorkerWidget
    \/ ChangeWorkerWidgetName

SpecWindow == InitWindow /\ [][NextWindow]_vars

(* ------------------------ the import of cli_conf ------------------------ *)
RECURSIVE Lists(_, _)
Lists(S, n) ==
    IF n = 0 THEN {<<>>}
    ELSE Lists(S, n - 1) \cup {Append(l, x) : l \in Lists(S, n - 1), x \in S}

InitConf ==
    /\ InitIdle
    /\ staggered = Constructed("mountain", default_upper_bound, default_lower_bound)
    /\ storage = EmptyStorage
    /\ walls = WallsConstructed(0, NoPrice, FALSE, FALSE, 0)
    /\ window = MainView({})
    /\ conf \in {Imported(external) : external \in Lists(Descriptions, MaxExternal)}

\* line 37, with a strategy left
ForNext ==
    /\ conf.pc = "for"
    /\ conf.pending # <<>>
    /\ conf' = tag_started(conf)
    /\ UNCHANGED <<kothVars, prior, pc, staggered, storage, walls, window>>

\* line 41, the tag being taken
WhileBody ==
    /\ conf.pc = "while"
    /\ conf.tag \in conf.tags_so_far
    /\ conf' = tag_extended(conf)
    /\ UNCHANGED <<kothVars, prior, pc, staggered, storage, walls, window>>

\* line 41, the tag being free
WhileExit ==
    /\ conf.pc = "while"
    /\ conf.tag \notin conf.tags_so_far
    /\ conf' = tag_accepted(conf)
    /\ UNCHANGED <<kothVars, prior, pc, staggered, storage, walls, window>>

\* line 37, with no strategy left
ForEnd ==
    /\ conf.pc = "for"
    /\ conf.pending = <<>>
    /\ conf' = [conf EXCEPT !.pc = "done"]
    /\ UNCHANGED <<kothVars, prior, pc, staggered, storage, walls, window>>

NextConf ==
    \/ ForNext
    \/ WhileBody
    \/ WhileExit
    \/ ForEnd

SpecConf == InitConf /\ [][NextConf]_vars

(* ----------------------------- properties ------------------------------- *)
PlaceCalls  == {i \in DOMAIN calls : calls[i].op = "place_order"}
CancelCalls == {i \in DOMAIN calls : calls[i].op = "cancel_orders"}

\* the placement call reached the exchange (whatever the exchange answered)
Submitted(e) == e.info.outcome \in {"placed", "failed"}

\* the foreign orders of one side in the fetched book that are larger than
\* the side's size threshold, and the best-priced of them
Threshold(side) ==
    IF side = "buy"
    THEN IF RIsZero(worker.buy_order_size_threshold) THEN worker.buy_order_amount
         ELSE worker.buy_order_size_threshold
    ELSE IF RIsZero(worker.sell_order_size_threshold) THEN worker.sell_order_amount
         ELSE worker.sell_order_size_threshold

Qualifying(side) ==
    {o \in snapshot : o.id \in ForeignIds /\ o.side = side /\ RGt(o.amount, Threshold(side))}

Competitor(side) ==
    CHOOSE o \in Qualifying(side) : \A x \in Qualifying(side) :
        IF side = "buy" THEN RGe(o.price, x.price) ELSE RLe(o.price, x.price)

InWindow == now - last_check < worker.min_order_lifetime

\* C1: a step that starts fewer than min_check_interval seconds after
\* last_check makes no exchange call at all (no fetch, no cancel, no
\* placement) and leaves orders, the top prices, the orders to beat, the
\* beaten orders, disabled and last_check as they were.
C1_ThrottledIsNoOp ==
    [][InWindow =>
          /\ \/ calls' = <<>>
             \/ calls' = <<[op |-> "maintain_strategy", throttled |-> TRUE]>>
          /\ snapshot' = {}
          /\ UNCHANGED strategyVars]_vars

C1_Witness == calls = <<[op |-> "maintain_strategy", throttled |-> TRUE]>>

\* C2 (as claimed): no order is cancelled and no placement is submitted by a
\* step that runs with the disabled flag already set.
C2_FailStop ==
    /\ \A i \in PlaceCalls : calls[i].info.outcome = "placed" => ~calls[i].before.disabled
    /\ \A i \in CancelCalls : calls[i].ok => ~calls[i].before.disabled

\* C3 (as claimed): every submitted buy price is strictly above the price of
\* the best qualifying foreign buy order of the fetched book.
C3_BuyAboveCompetitor ==
    \A i \in PlaceCalls :
        (calls[i].side = "buy" /\ Submitted(calls[i]) /\ Qualifying("buy") # {})
            => RGt(calls[i].info.price, Competitor("buy").price)

\* C3 (amended): a submitted buy price is strictly above the competitor's
\* price when that price is below upper_bound, and is upper_bound otherwise.
C3_BuyAboveCompetitorWithinBound ==
    \A i \in PlaceCalls :
        (calls[i].side = "buy" /\ Submitted(calls[i]) /\ Qualifying("buy") # {})
            => IF RLt(Competitor("buy").price, worker.upper_bound)
               THEN RGt(calls[i].info.price, Competitor("buy").price)
               ELSE calls[i].info.price = worker.upper_bound

C3_Witness ==
    \E i \in PlaceCalls :
        /\ calls[i].side = "buy" /\ Submitted(calls[i]) /\ Qualifying("buy") # {}
        /\ RLt(Competitor("buy").price, worker.upper_bound)
        /\ RGt(calls[i].info.price, Competitor("buy").price)

\* C4 (as claimed): every submitted sell price is strictly below the price of
\* the best qualifying foreign sell order of the fetched book.
C4_SellBelowCompetitor ==
    \A i \in PlaceCalls :
        (calls[i].side = "sell" /\ Submitted(calls[i]) /\ Qualifying("sell") # {})
            => RLt(calls[i].info.price, Competitor("sell").price)

\* C4 (amended): a submitted sell price is strictly below the competitor's
\* price when that price is above lower_bound, and is lower_bound otherwise.
C4_SellBelowCompetitorWithinBound ==
    \A i \in PlaceCalls :
        (calls[i].side = "sell" /\ Submitted(calls[i]) /\ Qualifying("sell") # {})
            => IF RGt(Competitor("sell").price, worker.lower_bound)
               THEN RLt(calls[i].info.price, Competitor("sell").price)
               ELSE calls[i].info.price = worker.lower_bound

C4_Witness ==
    \E i \in PlaceCalls :
        /\ calls[i].side = "sell" /\ Submitted(calls[i]) /\ Qualifying("sell") # {}
        /\ RGt(Competitor("sell").price, worker.lower_bound)
        /\ RLt(calls[i].info.price, Competitor("sell").price)

\* C5: a submitted buy price is min(derived price, upper_bound), so never
\* above upper_bound; a submitted sell price is max(derived price,
\* lower_bound), so never below lower_bound.
C5_PriceWithinBounds ==
    \A i \in PlaceCalls :
        Submitted(calls[i]) =>
            IF calls[i].side = "buy"
            THEN /\ calls[i].info.price = RMin(calls[i].info.derived, worker.upper_bound)
                 /\ RLe(calls[i].info.price, worker.upper_bound)
            ELSE /\ calls[i].info.price = RMax(calls[i].info.derived, worker.lower_bound)
                 /\ RGe(calls[i].info.price, worker.lower_bound)

C5_Witness ==
    \E i \in PlaceCalls :
        /\ calls[i].side = "buy" /\ Submitted(calls[i])
        /\ RGt(calls[i].info.derived, worker.upper_bound)

\* the top price of its side that a place_order call found on entry
TopAtEntry(e) ==
    IF e.side = "buy" THEN e.before.top_buy_price ELSE e.before.top_sell_price
BeatenBefore(e) ==
    IF e.side = "buy" THEN e.before.beaten_buy_order ELSE e.before.beaten_sell_order
BeatenAfter(e) ==
    IF e.side = "buy" THEN e.after.beaten_buy_order ELSE e.after.beaten_sell_order

\* C6: place_order for a side whose top price is unset submits nothing,
\* sets disabled, and leaves the orders map and the side's beaten-order id
\* unchanged.
C6_NoReferencePrice ==
    \A i \in PlaceCalls :
        RIsZero(TopAtEntry(calls[i])) =>
            /\ ~Submitted(calls[i])
            /\ calls[i].after.disabled
            /\ calls[i].after.orders = calls[i].before.orders
            /\ BeatenAfter(calls[i]) = BeatenBefore(calls[i])

C6_Witness ==
    \E i \in PlaceCalls : RIsZero(TopAtEntry(calls[i])) /\ ~calls[i].before.disabled

\* C7 (as claimed): an order is submitted for a side only if the book
\* fetched in the same evaluation holds a qualifying foreign order of that side.
C7_NoBlindPrice ==
    \A i \in PlaceCalls : Submitted(calls[i]) => Qualifying(calls[i].side) # {}

\* C8 (as claimed): a place_order call whose amounts fail the dust check
\* submits nothing and leaves the worker disabled.
C8_DustDisables ==
    \A i \in PlaceCalls :
        calls[i].info.outcome = "too small" =>
            /\ ~Submitted(calls[i])
            /\ calls[i].after.disabled

\* the configured own amount of a side, quantized at the asset precision
OwnAmount(side) ==
    IF side = "buy" THEN Quantize(worker.buy_order_amount, market.base)
    ELSE Quantize(worker.sell_order_amount, market.quote)

\* C9: place_order for a side whose configured own amount quantizes to zero
\* submits nothing and sets disabled.
C9_ZeroAmount ==
    \A i \in PlaceCalls :
        RIsZero(OwnAmount(calls[i].side)) =>
            /\ ~Submitted(calls[i])
            /\ calls[i].after.disabled

C9_Witness ==
    \E i \in PlaceCalls :
        /\ RIsZero(OwnAmount(calls[i].side))
        /\ ~RIsZero(TopAtEntry(calls[i]))
        /\ ~calls[i].before.disabled

\* an amount is dust at precision p iff it is below 10^-p
IsDust(a, p) == a.n * Pow10(p) < a.d

\* C10: is_too_small_amounts(amount_quote, amount_base) is true exactly when
\* amount_quote is dust at the quote precision or amount_base is dust at the
\* base precision; at precision 2, 0.004 is dust and 0.01 is not.
C10_DustPredicate ==
    \A i \in DOMAIN calls :
        calls[i].op = "is_too_small_amounts" =>
            /\ calls[i].result <=>
                  \/ IsDust(calls[i].amount_quote, market.quote)
                  \/ IsDust(calls[i].amount_base, market.base)
            /\ (market.quote = 2 /\ calls[i].amount_quote = R(4, 1000)) => calls[i].result
            /\ (market.quote = 2 /\ market.base = 2 /\ calls[i].amount_quote = R(1, 100)
                  /\ calls[i].amount_base = R(1, 100)) => ~calls[i].result

C10_Witness ==
    /\ market = [base |-> 2, quote |-> 2]
    /\ calls = <<[op |-> "is_too_small_amounts", amount_quote |-> R(1, 100),
                  amount_base |-> R(1, 100), result |-> FALSE]>>

\* C11: when the exchange answered every call of the latest evaluation and
\* neither the book nor an own order has changed since, an evaluation that
\* gets past the throttle sends no cancellation and no placement to the
\* exchange.
C11_Idempotent ==
    [][prior.settled /\ ~InWindow =>
          \A i \in DOMAIN calls' :
              /\ calls'[i].op # "cancel_orders"
              /\ calls'[i].op = "place_order" => ~Submitted(calls'[i])]_vars

\* the step is an evaluation: maintain_strategy got past the throttle
Evaluates == calls' # <<>> /\ calls'[1] = [op |-> "maintain_strategy", throttled |-> FALSE]

\* C12: in mode 'both', a side whose placement the exchange refused in the
\* latest evaluation has place_order called for it in the next evaluation
\* that gets past the throttle (the worker not being disabled).
C12_RetryNextCycle ==
    [][worker.mode = "both" /\ ~disabled /\ Evaluates =>
          \A x \in prior.unplaced :
              \E i \in DOMAIN calls' :
                  calls'[i].op = "place_order" /\ calls'[i].side = x]_vars

\* the own orders of one side that are open on the exchange
OwnOpen(x) == {o \in own : o.side = x}

\* C13: when the handling of a tick and of a market update overlap, at most
\* one of the two is past the throttle at any time, and no side has two own
\* orders open.
C13_OneEvaluationInFlight ==
    /\ Cardinality({h \in Handlers : pc[h] # "idle"}) <= 1
    /\ \A x \in Sides : Cardinality(OwnOpen(x)) <= 1

\* the log entries of the step being taken that are calls for side x
PlacesOf(x)  == {i \in DOMAIN calls' : calls'[i].op = "place_order" /\ calls'[i].side = x}
CancelsOf(x) == {i \in DOMAIN calls' : calls'[i].op = "cancel_orders" /\ calls'[i].side = x}

\* before the step: side x has an entry in self.orders, and whether the
\* order it names can be looked up
Tracked(x) == orders[x] # None
Absent(x)  == Tracked(x) /\ get_order(Self, orders[x]).id = None
Live(x)    == Tracked(x) /\ get_order(Self, orders[x]).id # None

\* before the step: check_orders, with the top prices it is about to
\* fetch, finds the live own order of side x in need of cancelling
NeedsCancel(x) ==
    Live(x) /\ need_cancel(get_top_prices(Self), x, get_order(Self, orders[x]))

Other(x) == IF x = "buy" THEN "sell" ELSE "buy"

\* C14: an evaluation that finds the own order of a tracked side gone calls
\* place_order for that side once and cancel_orders for it not at all; for
\* the other side it makes no call unless that side is itself tracked and
\* its own order is gone or in need of cancelling.
C14_AbsentIsReplaced ==
    [][\A x \in Sides :
          Evaluates /\ Absent(x) =>
              /\ Cardinality(PlacesOf(x)) = 1
              /\ CancelsOf(x) = {}
              /\ (~Absent(Other(x)) /\ ~NeedsCancel(Other(x))) =>
                     PlacesOf(Other(x)) = {} /\ CancelsOf(Other(x)) = {}]_vars

\* the evaluation just made replaced a vanished own order of one side and
\* made no call for the other side, which is tracked too
C14_Witness ==
    \E x \in Sides :
        /\ \E i \in PlaceCalls : calls[i].side = x /\ calls[i].before.orders[x] # None
        /\ \A i \in CancelCalls : calls[i].side # x
        /\ orders[Other(x)] # None
        /\ \A i \in PlaceCalls \cup CancelCalls : calls[i].side = x

\* C15: an evaluation that finds the live own order of a side filled beyond
\* the threshold or beaten calls cancel_orders for it once; when the
\* cancellation succeeds it calls place_order for the side once, after the
\* cancellation; when the cancellation fails it does not call place_order
\* for the side.
C15_CancelThenReplace ==
    [][\A x \in Sides :
          Evaluates /\ NeedsCancel(x) =>
              /\ Cardinality(CancelsOf(x)) = 1
              /\ \A c \in CancelsOf(x) :
                     IF calls'[c].ok
                     THEN /\ Cardinality(PlacesOf(x)) = 1
                          /\ \A i \in PlacesOf(x) : i > c
                     ELSE PlacesOf(x) = {}]_vars

\* the evaluation just made cancelled an own order and then placed its
\* replacement
C15_Witness ==
    \E c \in CancelCalls : \E i \in PlaceCalls :
        /\ calls[c].ok
        /\ calls[i].side = calls[c].side
        /\ i > c
        /\ calls[i].info.outcome = "placed"

\* before the step: the foreign order that side x's own order was placed to
\* beat is still open
BeatenOpen(x) ==
    get_order(Self, IF x = "buy" THEN beaten_buy_order ELSE beaten_sell_order).id # None

\* own order o of side x is priced worse than the top price in s: a buy
\* order below the top buy price, a sell order above the top sell price
Outbid(s, x, o) ==
    IF x = "buy" THEN RLt(o.price, s.top_buy_price) ELSE RGt(o.price, s.top_sell_price)

\* before the step: the live own order of side x is filled beyond the
\* threshold; it is priced worse than the top price about to be fetched
FilledTooMuch(x) == Live(x) /\ get_order(Self, orders[x]).pfilled
OutbidNow(x) == Live(x) /\ Outbid(get_top_prices(Self), x, get_order(Self, orders[x]))

\* C16: an evaluation that finds the own order of a side live, not filled
\* beyond the threshold, its beaten order still open and its price not worse
\* than the top price makes no cancel_orders and no place_order call for
\* the side and leaves the side's entry in self.orders as it was.
C16_LiveIsUntouched ==
    [][\A x \in Sides :
          Evaluates /\ Live(x) /\ ~FilledTooMuch(x) /\ BeatenOpen(x) /\ ~OutbidNow(x) =>
              /\ CancelsOf(x) = {}
              /\ PlacesOf(x) = {}
              /\ orders'[x] = orders[x]]_vars

\* the evaluation just made checked a tracked side and made no call for it,
\* its own order being open
C16_Witness ==
    \E x \in Sides :
        /\ calls # <<>> /\ calls[1] = [op |-> "maintain_strategy", throttled |-> FALSE]
        /\ orders[x] # None
        /\ \E o \in own : o.id = orders[x] /\ ~o.pfilled
        /\ \A i \in PlaceCalls \cup CancelCalls : calls[i].side # x

\* before the step: the live own order of side x has lost the order it was
\* placed to beat, or is priced worse than the top price about to be fetched
Beaten(x) == Live(x) /\ (~BeatenOpen(x) \/ OutbidNow(x))

\* C17 as stated: an evaluation that finds the live own order of a side
\* beaten (its beaten order gone, or its price worse than the top price)
\* cancels it and calls place_order for the side.
C17_BeatenIsReplaced ==
    [][\A x \in Sides :
          Evaluates /\ Beaten(x) =>
              /\ \E c \in CancelsOf(x) : calls'[c].ok
              /\ PlacesOf(x) # {}]_vars

\* C17 amended: such an evaluation calls cancel_orders for the own order
\* once, and calls place_order for the side exactly when the cancellation
\* succeeded.
C17_BeatenIsCancelled ==
    [][\A x \in Sides :
          Evaluates /\ Beaten(x) =>
              /\ Cardinality(CancelsOf(x)) = 1
              /\ \A c \in CancelsOf(x) :
                     /\ calls'[c].id = orders[x]
                     /\ calls'[c].ok <=> PlacesOf(x) # {}]_vars

\* the evaluation just made cancelled an own order whose beaten order had
\* left the book, or whose price was worse than the top price, and then
\* called place_order for the side
C17_Witness ==
    \E c \in CancelCalls : \E i \in PlaceCalls :
        /\ calls[c].ok /\ ~calls[c].pfilled
        /\ calls[i].side = calls[c].side
        /\ i > c
        /\ \/ calls[c].side = "buy" /\ calls[c].before.beaten_buy_order \notin book
           \/ calls[c].side = "sell" /\ calls[c].before.beaten_sell_order \notin book

\* the same for an own buy order outbid by a foreign order, the order it
\* had been placed to beat being still open
C17_WitnessOutbid ==
    \E c \in CancelCalls : \E i \in PlaceCalls :
        /\ calls[c].ok /\ ~calls[c].pfilled
        /\ calls[c].side = "buy" /\ calls[i].side = "buy"
        /\ i > c
        /\ calls[c].before.beaten_buy_order \in book
        /\ RLt(calls[c].price, calls[c].before.top_buy_price)

\* the sides the configured mode trades
ModeSides == {x \in Sides : worker.mode \in {"both", x}}

\* C18: an evaluation that starts with self.orders empty calls
\* cancel_orders for no side, place_order once for every side of the
\* configured mode and for no other side.
C18_EmptyMapPlacesAll ==
    [][Evaluates /\ (\A x \in Sides : ~Tracked(x)) =>
          /\ CancelCalls' = {}
          /\ \A x \in Sides :
                 Cardinality(PlacesOf(x)) = IF x \in ModeSides THEN 1 ELSE 0]_vars

\* C19: no place_order call ends in an arithmetic fault: a decrement loop
\* that uses its amount up ends the call as a dust amount, and no order is
\* submitted with an amount of zero.
C19_LoopExhaustionIsDust ==
    \A i \in PlaceCalls :
        /\ calls[i].info.outcome # "raised"
        /\ Submitted(calls[i]) =>
               ~RIsZero(calls[i].info.amount_quote) /\ ~RIsZero(calls[i].info.amount_base)

\* a is a whole multiple of 10^-p
IsMultiple(a, p) == Quantize(a, p) = a

\* C20: the amounts of every order place_order submits are whole multiples
\* of the smallest unit of their asset: amount_quote of 10^-precision of
\* the quote asset, amount_base of 10^-precision of the base asset.
C20_SubmittedAmountsQuantized ==
    \A i \in PlaceCalls :
        Submitted(calls[i]) =>
            /\ IsMultiple(calls[i].info.amount_quote, market.quote)
            /\ IsMultiple(calls[i].info.amount_base, market.base)

\* the step just taken fetched the order book
Fetched == \E i \in DOMAIN calls : calls[i].op = "get_market_orders"

\* the account's own orders in the fetched book, and those of them on side
\* x that are larger than the side's size threshold
OwnFetched == {o \in snapshot : o.id \notin ForeignIds}
OwnQualifying(x) == {o \in OwnFetched : o.side = x /\ RGt(o.amount, Threshold(x))}

\* C21: the orders to beat are never own orders, and after a fetch whose
\* book holds a foreign order above the size threshold of a side, the
\* order to beat of that side is the best such foreign order, whatever own
\* orders the book holds.
C21_OwnOrdersExcluded ==
    /\ \A o \in own \cup OwnFetched : o.id \notin {buy_order_to_beat, sell_order_to_beat}
    /\ Fetched /\ Qualifying("buy") # {} => buy_order_to_beat = Competitor("buy").id
    /\ Fetched /\ Qualifying("sell") # {} => sell_order_to_beat = Competitor("sell").id

\* the fetched book holds an own order above the size threshold that is
\* priced better than the foreign order chosen as the order to beat
C21_Witness ==
    /\ Fetched
    /\ \/ /\ Qualifying("buy") # {}
          /\ \E o \in OwnQualifying("buy") : RGt(o.price, Competitor("buy").price)
       \/ /\ Qualifying("sell") # {}
          /\ \E o \in OwnQualifying("sell") : RLt(o.price, Competitor("sell").price)

\* the foreign orders of side x in the fetched book; b is priced better
\* than o on side x; the order to beat of side x
ForeignFetched(x) == {o \in snapshot : o.id \in ForeignIds /\ o.side = x}
Better(x, b, o) == IF x = "buy" THEN RGt(b.price, o.price) ELSE RLt(b.price, o.price)
ToBeat(x) == IF x = "buy" THEN buy_order_to_beat ELSE sell_order_to_beat

\* C22: after a fetch, an order to beat that is in the fetched book is
\* larger than the side's size threshold, and every better-priced order of
\* its side is at or below the threshold; when the book holds an order
\* larger than the threshold, the order to beat is in the book.
C22_FirstAboveThreshold ==
    Fetched =>
        \A x \in Sides :
            /\ \A o \in ForeignFetched(x) :
                   o.id = ToBeat(x) =>
                       /\ RGt(o.amount, Threshold(x))
                       /\ \A b \in ForeignFetched(x) :
                              Better(x, b, o) => RLe(b.amount, Threshold(x))
            /\ (\E o \in ForeignFetched(x) : RGt(o.amount, Threshold(x))) =>
                   \E o \in ForeignFetched(x) : o.id = ToBeat(x)

\* the fetched book holds a better-priced order whose size equals the
\* threshold, and the order to beat is the larger order behind it
C22_Witness ==
    /\ Fetched
    /\ \E x \in Sides : \E o \in ForeignFetched(x) : \E b \in ForeignFetched(x) :
           /\ o.id = ToBeat(x)
           /\ Better(x, b, o)
           /\ b.amount = Threshold(x)

\* what a tick that does not call maintain_strategy leaves alone
TickIdle ==
    /\ UNCHANGED <<strategyVars, worker, market, now, book, own>>
    /\ calls' = <<>>

StaggeredTickIdle ==
    /\ staggered'.upper_bound = staggered.upper_bound
    /\ staggered'.lower_bound = staggered.lower_bound
    /\ staggered'.center = NoPrice
    /\ staggered'.levels = {}

\* C23: every tick adds one to the counter; maintain_strategy is called only
\* when the counter before the tick is a multiple of 4 (king of the hill) or
\* of 5 (staggered orders); any other tick changes the counter alone
C23_TickCadence ==
    [][/\ Tick => /\ counter' = counter + 1
                  /\ counter % 4 # 0 => TickIdle
       /\ StaggeredTick => /\ staggered'.counter = staggered.counter + 1
                           /\ staggered.counter % 5 # 0 => StaggeredTickIdle]_vars

\* the same, for the ticks that return
C23_TickCadenceReturning ==
    [][/\ Tick => /\ counter' \in {counter, counter + 1}
                  /\ counter % 4 # 0 => counter' = counter + 1 /\ TickIdle
       /\ StaggeredTick => /\ staggered'.raised \/ staggered'.counter = staggered.counter + 1
                           /\ staggered.counter % 5 # 0 =>
                                 ~staggered'.raised /\ StaggeredTickIdle]_vars

\* the tick just taken evaluated and passed the bounds check of lines 91-95
BoundsChecked == staggered'.center # NoPrice

\* what the claim says of the bounds check
BoundsFollow ==
    /\ RGt(staggered'.center, staggered.upper_bound) =>
          staggered'.upper_bound = staggered'.center
    /\ RLt(staggered'.center, staggered.lower_bound) =>
          staggered'.lower_bound = staggered'.center
    /\ RLe(staggered'.lower_bound, staggered'.center)
    /\ RLe(staggered'.center, staggered'.upper_bound)

\* C24: a centre price above upper_bound becomes upper_bound, one below
\* lower_bound becomes lower_bound, and after the bounds check
\* lower_bound <= centre price <= upper_bound
C24_BoundsFollowCenter == [][BoundsChecked => BoundsFollow]_vars

\* the same, for a worker whose bounds are in order when the check starts
C24_BoundsFollowCenterOrdered ==
    [][BoundsChecked /\ RLe(staggered.lower_bound, staggered.upper_bound) => BoundsFollow]_vars

\* C25: in every reachable state of the worker, from its construction with
\* the configured bounds on, lower_bound <= upper_bound
C25_BoundsOrdered == RLe(staggered.lower_bound, staggered.upper_bound)

\* no tick is the first to put the bounds out of order
C25_BoundsStayOrdered ==
    [][RLe(staggered.lower_bound, staggered.upper_bound) =>
          RLe(staggered'.lower_bound, staggered'.upper_bound)]_vars

\* 1 + increment, the ratio of two neighbouring levels of the ladder
Ratio == R(staggered.increment.n + staggered.increment.d, staggered.increment.d)

\* a mountain-mode evaluation has just returned
LadderEvaluated ==
    /\ staggered.mode = "mountain"
    /\ staggered.center # NoPrice
    /\ ~staggered.raised

\* the prices between the bounds, one factor apart and reaching the bounds
\* on both sides of the centre price
IsLadder(levels, center) ==
    /\ \A p \in levels : RLe(staggered.lower_bound, p) /\ RLe(p, staggered.upper_bound)
    /\ RLe(RMul(center, Ratio), staggered.upper_bound) => \E p \in levels : RGt(p, center)
    /\ RGe(RDiv(center, Ratio), staggered.lower_bound) => \E p \in levels : RLt(p, center)
    /\ \A p \in levels :
          /\ RGt(p, center) /\ RLe(RMul(p, Ratio), staggered.upper_bound) =>
                RMul(p, Ratio) \in levels
          /\ RLt(p, center) /\ RGe(RDiv(p, Ratio), staggered.lower_bound) =>
                RDiv(p, Ratio) \in levels

\* C26: a mountain-mode evaluation places orders at prices that form a
\* geometric sequence outward from the centre price on each side, one
\* increment apart and ending at upper_bound / lower_bound
C26_GeometricLadder == LadderEvaluated => IsLadder(staggered.levels, staggered.center)

\* the call of the storage just made, and its answer
Called(op) == storage.fetched.op = op
Answer == storage.fetched.result

\* C27: after save_order(order), fetch_orders() answers with a mapping from
\* order id to order in which every saved order stands under its id
C27_RoundTrip ==
    Called("fetch_orders") =>
        \A s \in storage.saved :
            /\ s.order.id \in DOMAIN Answer
            /\ Answer[s.order.id] = s.order

C27_Witness ==
    /\ Called("fetch_orders")
    /\ \E s, t \in storage.saved : s.order.id # t.order.id /\ s.order.base # t.order.base

\* the call of fetch_orders_extended just made had these arguments
Asked(only_virtual, only_real, custom, return_ids_only) ==
    /\ Called("fetch_orders_extended")
    /\ storage.fetched.only_virtual = only_virtual
    /\ storage.fetched.only_real = only_real
    /\ storage.fetched.custom = custom
    /\ storage.fetched.return_ids_only = return_ids_only

\* the answer lists the saved order with its custom value and virtual flag
Listed(s) ==
    \E i \in DOMAIN Answer :
        Answer[i] = [order |-> s.order, virtual |-> s.virtual, custom |-> s.custom]

\* the orders saved as virtual orders with a custom value
VirtualSaved == {s \in storage.saved : s.virtual /\ s.custom # NoCustom}

\* C28: an order saved with virtual=True and custom=c is listed, with its
\* order, custom value and virtual flag, by the fetch of the virtual orders,
\* by the fetch for custom=c and by the unfiltered fetch; the fetch of the
\* real orders leaves it out; return_ids_only yields the saved ids
C28_ExtendedFetch ==
    /\ \A s \in VirtualSaved :
          /\ Asked(TRUE, FALSE, NoCustom, FALSE) => Listed(s)
          /\ Asked(FALSE, FALSE, s.custom, FALSE) => Listed(s)
          /\ Asked(FALSE, FALSE, NoCustom, FALSE) => Listed(s)
          /\ Asked(FALSE, TRUE, NoCustom, FALSE) =>
                \A i \in DOMAIN Answer : Answer[i].order # s.order
    /\ Asked(FALSE, FALSE, NoCustom, TRUE) =>
          /\ Len(Answer) = Cardinality(storage.saved)
          /\ {Answer[i] : i \in DOMAIN Answer} = {s.order.id : s \in storage.saved}

C28_Witness ==
    /\ Asked(FALSE, TRUE, NoCustom, FALSE)
    /\ VirtualSaved # {}
    /\ Len(Answer) = 1

\* C29: whatever the exchange answers to the cancellations and placements
\* of a sequence of evaluations, no side ever has two own orders open
C29_OneOwnOrderPerSide == \A x \in Sides : Cardinality(OwnOpen(x)) <= 1

\* an evaluation has just failed to cancel the own order of a side, which
\* is still the only one open there
C29_Witness ==
    \E x \in Sides :
        /\ Cardinality(OwnOpen(x)) = 1
        /\ \E i \in DOMAIN calls :
              calls[i].op = "cancel_orders" /\ calls[i].side = x /\ ~calls[i].ok

\* C30: a worker of mode 'buy' never submits a sell order and never has a
\* 'sell' entry in self.orders, a worker of mode 'sell' likewise for buy, and
\* a worker of any mode other than 'both', 'buy' and 'sell' submits no order
C30_ModeRestriction ==
    \A x \in Sides \ ModeSides :
        /\ orders[x] = None
        /\ OwnOpen(x) = {}
        /\ \A i \in PlaceCalls : calls[i].side = x => ~Submitted(calls[i])

\* a one-sided worker has just placed the order of its side
C30_Witness ==
    /\ worker.mode \in Sides
    /\ orders[worker.mode] # None
    /\ \E i \in PlaceCalls : calls[i].side = worker.mode /\ calls[i].info.outcome = "placed"

\* a worker of another mode has just evaluated
C30_WitnessOff ==
    /\ worker.mode = "off"
    /\ calls # <<>>
    /\ calls[1].op = "maintain_strategy" /\ ~calls[1].throttled
    /\ book # {}

\* C31: no operation of the strategy changes the disabled flag from true
\* back to false
C31_DisabledIsMonotone == [][disabled => disabled']_vars

\* a disabled worker has just evaluated and had an order accepted
C31_Witness ==
    /\ disabled
    /\ \E i \in PlaceCalls :
          calls[i].before.disabled /\ calls[i].info.outcome = "placed"

\* test() has just run; the worker as it found it
Tested == walls.log # <<>> /\ walls.log[1].op = "test"
Found == walls.log[1]

\* the calls of updateorders test() made from one of its two branches
Updates(branch) ==
    {i \in DOMAIN walls.log :
        walls.log[i].op = "updateorders" /\ walls.log[i].branch = branch}

\* the price differs from the feed price by more than threshold percent
Differs(price, feed_price) ==
    RGt(RMul(RAbs(RSub(price, feed_price)), R(100, 1)), RMul(walls_threshold, feed_price))

\* C32: test() calls updateorders for zero own orders; for one own order,
\* from the order-count branch, iff neither insufficient flag is set; never
\* from that branch for two or more; and whenever a feed price is stored
\* and the price differs from it by more than threshold percent
C32_TestDecision ==
    Tested =>
        /\ Found.orders = 0 => Updates("count") # {}
        /\ Found.orders = 1 =>
              (Updates("count") # {} <=> ~Found.insufficient_buy /\ ~Found.insufficient_sell)
        /\ Found.orders >= 2 => Updates("count") = {}
        /\ \A i \in DOMAIN walls.log :
              walls.log[i].op = "feed_test" =>
                  /\ Updates("feed") # {} <=>
                        /\ walls.log[i].feed_price # NoPrice
                        /\ Differs(walls.log[i].price, walls.log[i].feed_price)
                  /\ Found.feed_price # NoPrice /\ Differs(walls.log[i].price, Found.feed_price)
                        => Updates("count") \cup Updates("feed") # {}

\* one own order and a flag set: only the moved price brings the update
C32_Witness ==
    /\ Tested
    /\ Found.orders = 1
    /\ Found.insufficient_buy
    /\ Updates("count") = {}
    /\ Updates("feed") # {}

\* the calls of updateorders of the step just taken
Updated == {i \in DOMAIN walls.log : walls.log[i].op = "updateorders"}

\* the balance falls short of what the side's order needs
ShortOf(e, side) ==
    IF side = "buy"
    THEN RLt(e.balance.base, RMul(buy_price(e.price), amount_buy))
    ELSE RLt(e.balance.quote, amount_sell)

FlagOf(e, side) == IF side = "buy" THEN e.insufficient_buy ELSE e.insufficient_sell

\* C33: updateorders places no order on a side whose balance is below the
\* side's requirement and sets its insufficient flag; otherwise it clears
\* the flag and places the order; either way the other side is handled too
C33_InsufficientFundsPerSide ==
    \A i \in Updated : \A side \in Sides :
        /\ ShortOf(walls.log[i], side) =>
              side \notin walls.log[i].placed /\ FlagOf(walls.log[i], side)
        /\ ~ShortOf(walls.log[i], side) =>
              side \in walls.log[i].placed /\ ~FlagOf(walls.log[i], side)

\* the buy side fell short and the sell order was placed all the same
C33_Witness ==
    \E i \in Updated :
        /\ ShortOf(walls.log[i], "buy")
        /\ walls.log[i].placed = {"sell"}
        /\ walls.insufficient_buy /\ ~walls.insufficient_sell

\* C34: after any sequence of add_worker_widget, remove_worker_widget and
\* change_worker_widget_name calls num_of_workers is the number of entries
\* of worker_widgets and at most max_workers, and the add-worker button is
\* enabled iff num_of_workers < max_workers
C34_WorkerCount ==
    /\ window.num_of_workers = Cardinality(window.worker_widgets)
    /\ window.num_of_workers <= max_workers
    /\ window.add_worker_button <=> window.num_of_workers < max_workers

\* the calls as the views make them: a worker is added from the enabled
\* button under a name not yet shown, a shown worker is removed, a shown
\* worker is renamed to a name no other widget has
CalledByViews ==
    \/ /\ window.add_worker_button
       /\ \E n \in WorkerNames \ window.worker_widgets :
             window' = add_worker_widget(window, n)
    \/ \E n \in window.worker_widgets : window' = remove_worker_widget(window, n)
    \/ \E n \in window.worker_widgets :
          \E m \in (WorkerNames \ window.worker_widgets) \cup {n} :
              window' = change_worker_widget_name(window, n, m)

\* the same, for the calls the views make
C34_WorkerCountByViews == [][C34_WorkerCount /\ CalledByViews => C34_WorkerCount']_vars

\* C35: for any list of external strategies the loop that makes a tag
\* unique ends for each of them (it runs at most once per tag taken), and
\* no two entries of STRATEGIES have the same tag, the built-in 'relative'
\* and 'stagger' included
C35_UniqueTags ==
    /\ conf.i <= Cardinality(conf.tags_so_far) + 1
    /\ \A j, k \in DOMAIN conf.STRATEGIES :
          j # k => conf.STRATEGIES[j].tag # conf.STRATEGIES[k].tag

\* three external strategies were tagged, one of them after two rounds of
\* the loop
C35_Witness ==
    /\ conf.pc = "done"
    /\ Len(conf.STRATEGIES) >= 5
    /\ \E j \in DOMAIN conf.STRATEGIES : conf.STRATEGIES[j].tag = <<"relative", "1", "2">>
    /\ \E j \in DOMAIN conf.STRATEGIES : conf.STRATEGIES[j].tag = <<"relative", "1", "1">>

====
